---- MODULE Spec2Model ----
(***************************************************************************)
(* Model of the workflow loop controller (Agent.execute and the methods it *)
(* calls) and of the execution history store (WorkflowState).              *)
(*                                                                         *)
(* Agent.execute is one async function: a single thread of control that    *)
(* suspends at every `await`.  pc is the position of that thread, inflight *)
(* is the operation it is suspended on.  An awaited operation is issued    *)
(* (Issue), and then either returns (one Ret_* action per await) or throws *)
(* (Throw).  Synchronous code between two awaits is one action.            *)
(* Timestamps (new Date()) and console output other than the max-steps     *)
(* warning are not part of the state.                                      *)
(***************************************************************************)
EXTENDS Integers, Sequences, FiniteSets, TLC

\* ------------------------------------------------------------------ bounds
\* largest configured maxSteps explored (config.maxSteps is any number)
MaxMaxSteps == 3

\* most live nodes one selector matches at click time
MaxMatches == 3

\* most nodes of a document under extraction
MaxNodes == 3

\* ------------------------------------------------------------- value sets
\* an optional field that is absent (JavaScript undefined)
Undef == "undefined"
\* value of a variable that holds nothing yet
None == "none"

\* URLs the page can be at; "about:blank" is a freshly launched page
Urls == {"u0", "u1"}
Blank == "about:blank"

\* action kinds a decision can name: the four of LLMDecision plus one
\* outside the closed set (the response is JSON.parse'd and cast unchecked)
DecisionActions == {"click", "type", "navigate", "complete", "delete"}
\* selector / text of a decision: absent, empty or present
Selectors == {Undef, "", "#a"}
Texts == {Undef, "", "hi"}
Reasonings == {"because"}
\* click points browser.click can return
ClickPoints == {<<30, 30>>, <<5, 5>>}

Decisions ==
  [action : DecisionActions, selector : Selectors, text : Texts,
   reasoning : Reasonings, completed : BOOLEAN]

\* JavaScript truthiness of an optional string: `!s` is true for undefined
\* and for the empty string
Falsy(s) == s = Undef \/ s = ""

Max(a, b) == IF a >= b THEN a ELSE b

\* ------------------------------------------------- WorkflowState (history)
\* ActionExecuted literals built by the agent; absent fields are Undef
ActionRec(type, selector, coordinates, text, url) ==
  [type |-> type, selector |-> selector, coordinates |-> coordinates,
   text |-> text, url |-> url]

\* variant: the step number is taken one too low
addStep_stale(steps_, action, reasoning, screenshotPath) ==
  Append(steps_, [stepNumber |-> Max(Len(steps_) - 1, 0),
                  screenshotPath |-> screenshotPath,
                  action |-> action, reasoning |-> reasoning])

\* WorkflowState.addStep: stepNumber is the length before the push
addStep(steps_, action, reasoning, screenshotPath) ==
  Append(steps_, [stepNumber |-> Len(steps_),
                  screenshotPath |-> screenshotPath,
                  action |-> action, reasoning |-> reasoning])

\* WorkflowState.getHistory: a fresh array with the same elements
getHistory(steps_) == [i \in 1..Len(steps_) |-> steps_[i]]

\* variant: the number of the last recorded step
getCurrentStepNumber_last(steps_) == Max(Len(steps_) - 1, 0)

\* WorkflowState.getCurrentStepNumber
getCurrentStepNumber(steps_) == Len(steps_)

\* variant: the step count of the summary leaves out step 0
exportSummary_offByOne(steps_) ==
  [totalSteps |-> Max(Len(steps_) - 1, 0),
   steps |-> [i \in 1..Len(steps_) |->
                [stepNumber |-> steps_[i].stepNumber,
                 action |-> steps_[i].action.type,
                 selector |-> steps_[i].action.selector,
                 coordinates |-> steps_[i].action.coordinates,
                 reasoning |-> steps_[i].reasoning,
                 screenshot |-> steps_[i].screenshotPath]]]

\* WorkflowState.exportSummary: the record written to workflow-summary.json
exportSummary(steps_) ==
  [totalSteps |-> Len(steps_),
   steps |-> [i \in 1..Len(steps_) |->
                [stepNumber |-> steps_[i].stepNumber,
                 action |-> steps_[i].action.type,
                 selector |-> steps_[i].action.selector,
                 coordinates |-> steps_[i].action.coordinates,
                 reasoning |-> steps_[i].reasoning,
                 screenshot |-> steps_[i].screenshotPath]]]


\* ------------------------------------------------------------ control flow
\* the awaited call at each suspension point of Agent.execute,
\* captureInitialState and executeWorkflowLoop
OpAt(loc) ==
  CASE loc = "state_initialize"      -> "fs.mkdir"
    [] loc = "browser_initialize"    -> "browser.initialize"
    [] loc = "determineInitialUrl"   -> "llm.determineInitialUrl"
    [] loc = "navigate"              -> "browser.navigate"
    [] loc = "init_saveScreenshot"   -> "browser.saveScreenshot"
    [] loc = "init_capturePageState" -> "browser.capturePageState"
    [] loc = "init_writeUiState"     -> "fs.writeFile"
    [] loc = "init_saveElements"     -> "browser.saveElementsToJson"
    [] loc = "determineEndState"     -> "llm.determineEndState"
    [] loc = "capturePageState"      -> "browser.capturePageState"
    [] loc = "determineNextAction"   -> "llm.determineNextAction"
    [] loc = "click"                 -> "browser.click"
    [] loc = "type"                  -> "browser.type"
    [] loc = "saveScreenshot"        -> "browser.saveScreenshot"
    [] loc = "post_capturePageState" -> "browser.capturePageState"
    [] loc = "writeUiState"          -> "fs.writeFile"
    [] loc = "saveElements"          -> "browser.saveElementsToJson"
    [] loc = "exportSummary"         -> "state.exportSummary"
    [] loc = "keepAlive"             -> "browser.keepAlive"
    [] loc = "catch_saveScreenshot"  -> "browser.saveScreenshot"
    [] loc = "finally_close"         -> "browser.close"

AwaitLocs ==
  {"state_initialize", "browser_initialize", "determineInitialUrl",
   "navigate", "init_saveScreenshot", "init_capturePageState",
   "init_writeUiState", "init_saveElements", "determineEndState",
   "capturePageState", "determineNextAction", "click", "type",
   "saveScreenshot", "post_capturePageState", "writeUiState",
   "saveElements", "exportSummary", "keepAlive", "catch_saveScreenshot",
   "finally_close"}

\* positions that are synchronous code between two awaits
SyncLocs == {"init_addStep", "loop_test", "dispatch", "addStep", "loop_exit"}

\* BrowserController methods that use the page of the session
PageOps ==
  {"browser.navigate", "browser.saveScreenshot", "browser.capturePageState",
   "browser.click", "browser.type", "browser.keepAlive"}

\* operations that mutate the page (DOM, focus, location)
MutatingOps == {"browser.navigate", "browser.click", "browser.type"}

\* statement order of execute, captureInitialState and executeWorkflowLoop:
\* the position that follows loc (loop_test and dispatch branch; their
\* branches are given by LoopTest and DispatchAction)
StatementOrder(loc) ==
  CASE loc = "state_initialize"      -> "browser_initialize"
    [] loc = "browser_initialize"    -> "determineInitialUrl"
    [] loc = "determineInitialUrl"   -> "navigate"
    [] loc = "navigate"              -> "init_saveScreenshot"
    [] loc = "init_saveScreenshot"   -> "init_capturePageState"
    [] loc = "init_capturePageState" -> "init_writeUiState"
    [] loc = "init_writeUiState"     -> "init_saveElements"
    [] loc = "init_saveElements"     -> "init_addStep"
    [] loc = "init_addStep"          -> "determineEndState"
    [] loc = "determineEndState"     -> "loop_test"
    [] loc = "capturePageState"      -> "determineNextAction"
    [] loc = "determineNextAction"   -> "dispatch"
    [] loc = "click"                 -> "saveScreenshot"
    [] loc = "type"                  -> "saveScreenshot"
    [] loc = "saveScreenshot"        -> "post_capturePageState"
    [] loc = "post_capturePageState" -> "writeUiState"
    [] loc = "writeUiState"          -> "saveElements"
    [] loc = "saveElements"          -> "addStep"
    [] loc = "addStep"               -> "loop_test"
    [] loc = "loop_exit"             -> "exportSummary"
    [] loc = "exportSummary"         -> "keepAlive"
    [] loc = "keepAlive"             -> "finally_close"
    [] loc = "catch_saveScreenshot"  -> "finally_close"
    [] loc = "finally_close"         -> "done"

\* variant: the summary export after the loop is left out
Succ_skipExport(loc) ==
  IF loc = "loop_exit" THEN "keepAlive" ELSE StatementOrder(loc)

\* variant: execute goes from the navigation straight to the loop
Succ_noBootstrap(loc) ==
  IF loc = "navigate" THEN "determineEndState" ELSE StatementOrder(loc)

\* variant: the first cycle decides on the observation of step 0
Succ_reuseInitialObservation(loc) ==
  IF loc = "determineEndState" THEN "determineNextAction"
  ELSE StatementOrder(loc)

\* where control goes when the step at loc finishes normally
Succ(loc) == StatementOrder(loc)

\* positions inside the try block of Agent.execute
TryLocs ==
  (AwaitLocs \cup SyncLocs)
    \ {"state_initialize", "browser_initialize", "catch_saveScreenshot",
       "finally_close"}

\* variant: a failed action is recorded like a performed one
Handler_recordsFailedAction(loc) ==
  IF loc \in {"dispatch", "click", "type"} THEN "saveScreenshot"
  ELSE IF loc \in TryLocs THEN "catch_saveScreenshot"
  ELSE IF loc = "catch_saveScreenshot" THEN "finally_close"
  ELSE "done"

\* try / catch / finally of Agent.execute: where control goes when the step
\* at loc raises
Handler(loc) ==
  IF loc \in TryLocs THEN "catch_saveScreenshot"
  ELSE IF loc = "catch_saveScreenshot" THEN "finally_close"
  ELSE "done"

\* the errors an awaited operation can raise when it fails.  browser.click
\* throws its own element-not-found error (part_003:127-129) or passes on the
\* rejection of one of its Playwright calls
ErrOf(op) ==
  CASE op = "browser.click"      -> {"ElementNotFound", "BrowserError"}
    [] op = "browser.initialize" -> {"SessionInitError"}
    [] op \in {"llm.determineInitialUrl", "llm.determineEndState",
               "llm.determineNextAction"} -> {"DecisionError"}
    [] op \in {"fs.mkdir", "fs.writeFile", "browser.saveElementsToJson",
               "state.exportSummary"} -> {"IOError"}
    [] OTHER -> {"BrowserError"}

\* variant: the elements file is written without being awaited
Awaited_detachedWrite(loc) == loc # "saveElements"

\* every call of the agent is written `await f(...)`: the agent does not go on
\* to its next statement before the call at loc has settled
Awaited(loc) == TRUE

\* variant: the step budget is compared with <=
LoopGuard_inclusive(completed_, steps_, maxSteps_) ==
  ~completed_ /\ getCurrentStepNumber(steps_) <= maxSteps_

\* variant: the completion flag is not part of the loop condition
LoopGuard_ignoresCompleted(completed_, steps_, maxSteps_) ==
  getCurrentStepNumber(steps_) < maxSteps_

\* loop condition of executeWorkflowLoop
LoopGuard(completed_, steps_, maxSteps_) ==
  ~completed_ /\ getCurrentStepNumber(steps_) < maxSteps_

\* the synthetic step 0 of captureInitialState
InitialAction(pageState_) ==
  ActionRec("navigate", Undef, Undef, Undef, pageState_.url)

InitialReasoning == "Initial page load"

\* screenshot file name of a step: step-<n>-<kind>.png
ScreenshotPath(n, kind) == <<"step", n, kind>>

\* ------------------------------------------------ geometry (click resolver)
\* bounding boxes a live node can have; sizes are even so that the centre
\* x + width / 2 is a whole number
Boxes ==
  {[x |-> 10, y |-> 20, width |-> 40, height |-> 20],
   [x |-> 10, y |-> 60, width |-> 40, height |-> 20],
   [x |-> 12, y |-> 20, width |-> 40, height |-> 24]}

\* boundingBox() of a node that is not rendered, and an absent targetBox
NullBox == [null |-> TRUE]

\* no locator (null)
NoElement == 0

\* initial value of smallestDifference
Infinity == -1

Abs(n) == IF n < 0 THEN -n ELSE n

\* the difference computed in the loop of BrowserController.click
BoxDiff(box, target) ==
  Abs(box.x - target.x) + Abs(box.y - target.y)
    + Abs(box.width - target.width) + Abs(box.height - target.height)

\* variant: the comparison is reversed
IsCloser_reversed(diff, smallest) == smallest = Infinity \/ diff > smallest

\* variant: a later match with the same difference replaces the best match
IsCloser_orEqual(diff, smallest) == smallest = Infinity \/ diff <= smallest

\* `diff < smallestDifference`, with smallestDifference starting at Infinity
IsCloser(diff, smallest) == smallest = Infinity \/ diff < smallest

\* variant: the click point is the top-left corner of the box
ClickPoint_corner(box) == <<box.x, box.y>>

\* the click point returned by BrowserController.click
ClickPoint(box) == <<box.x + box.width \div 2, box.y + box.height \div 2>>

\* variant: the fallback takes the last match
first_last(matches) == Max(Len(matches), 1)

\* locator.first(): the first match in DOM order
first(matches) == 1

\* `targetBox && count > 1`
UsesGeometry(target, n) == target # NullBox /\ n > 1

\* variant: the box of the first observed element, whatever its selector
TargetBoxOf_firstEntry(elements, selector) ==
  IF Len(elements) = 0 THEN NullBox ELSE elements[1].boundingBox

\* Array.prototype.find over the observed elements, then ?.boundingBox
TargetBoxOf(elements, selector) ==
  LET hits == {k \in 1..Len(elements) : elements[k].selector = selector} IN
    IF hits = {} THEN NullBox
    ELSE elements[CHOOSE k \in hits : \A m \in hits : k <= m].boundingBox

\* variant: the switch has no default branch and an unknown kind is handled
\* by the first case
Dispatch_noDefault(d) ==
  CASE d.action = "type" ->
         IF Falsy(d.selector) \/ Falsy(d.text)
           THEN [kind |-> "throw", arg |-> "TypeRequiresSelectorAndText"]
           ELSE [kind |-> "call", arg |-> "type"]
    [] d.action = "navigate" -> [kind |-> "done", arg |-> "navigate"]
    [] d.action = "complete" -> [kind |-> "done", arg |-> "complete"]
    [] OTHER ->
         IF Falsy(d.selector)
           THEN [kind |-> "throw", arg |-> "ClickRequiresSelector"]
           ELSE [kind |-> "call", arg |-> "click"]

\* variant: `navigate` is carried out as a click on the decision's selector
Dispatch_navigateClicks(d) ==
  CASE d.action = "click" ->
         IF Falsy(d.selector)
           THEN [kind |-> "throw", arg |-> "ClickRequiresSelector"]
           ELSE [kind |-> "call", arg |-> "click"]
    [] d.action = "type" ->
         IF Falsy(d.selector) \/ Falsy(d.text)
           THEN [kind |-> "throw", arg |-> "TypeRequiresSelectorAndText"]
           ELSE [kind |-> "call", arg |-> "type"]
    [] d.action = "navigate" -> [kind |-> "call", arg |-> "click"]
    [] d.action = "complete" -> [kind |-> "done", arg |-> "complete"]
    [] OTHER -> [kind |-> "throw", arg |-> "UnknownActionType"]

\* variant: `type` tests the selector only
Dispatch_typeWithoutText(d) ==
  CASE d.action = "click" ->
         IF Falsy(d.selector)
           THEN [kind |-> "throw", arg |-> "ClickRequiresSelector"]
           ELSE [kind |-> "call", arg |-> "click"]
    [] d.action = "type" ->
         IF Falsy(d.selector)
           THEN [kind |-> "throw", arg |-> "TypeRequiresSelectorAndText"]
           ELSE [kind |-> "call", arg |-> "type"]
    [] d.action = "navigate" -> [kind |-> "done", arg |-> "navigate"]
    [] d.action = "complete" -> [kind |-> "done", arg |-> "complete"]
    [] OTHER -> [kind |-> "throw", arg |-> "UnknownActionType"]

\* the switch of executeWorkflowLoop on decision.action: what the cycle does
\* next.  kind "throw": raise arg; "call": await the browser call at position
\* arg; "done": the executed action is built without touching the page
Dispatch(d) ==
  CASE d.action = "click" ->
         IF Falsy(d.selector)
           THEN [kind |-> "throw", arg |-> "ClickRequiresSelector"]
           ELSE [kind |-> "call", arg |-> "click"]
    [] d.action = "type" ->
         IF Falsy(d.selector) \/ Falsy(d.text)
           THEN [kind |-> "throw", arg |-> "TypeRequiresSelectorAndText"]
           ELSE [kind |-> "call", arg |-> "type"]
    [] d.action = "navigate" -> [kind |-> "done", arg |-> "navigate"]
    [] d.action = "complete" -> [kind |-> "done", arg |-> "complete"]
    [] OTHER -> [kind |-> "throw", arg |-> "UnknownActionType"]

\* the record written to ui-state-<n>.json (description and timestamp left out)
UiStateData(n, action, reasoning, observed, screenshotPath) ==
  [stepNumber |-> n, action |-> action, reasoning |-> reasoning,
   pageState |-> [url |-> observed.url], screenshotPath |-> screenshotPath]

\* BrowserController.capturePageState: the observation of the live page
capturePageState(url) == [url |-> url]

\* values of locals that are not assigned yet and of the summary file while
\* it does not exist
NoPageState == [url |-> Undef]
NoDecision ==
  [action |-> Undef, selector |-> Undef, text |-> Undef, reasoning |-> Undef,
   completed |-> FALSE]
NoAction == ActionRec(Undef, Undef, Undef, Undef, Undef)
NoSummary == [totalSteps |-> -1, steps |-> <<>>]

\* ------------------------------------------------------------------- state
VARIABLES
  pc, inflight, error,      \* position, calls in flight (by position), raised error
  maxSteps,                 \* config.maxSteps
  steps,                    \* WorkflowState.steps
  warned,                   \* the max-steps warning was logged
  completed, initialUrl, endState, pageState, history, decision,
  stepNumber, executedAction, postActionState,   \* locals of the agent
  acquired, closed, pageUrl,                     \* browser session and page
  screenshots, uiStates, elementsFiles, summary, errorShot,  \* files written
  \* history variables of the run, used to state properties only
  outcome,          \* how executeWorkflowLoop returned
  cycles,           \* loop iterations that recorded a step
  sawCompleting,    \* some decision had completed = true or action complete
  recordedCompleting, \* the step of such a decision was appended
  nextActionCalls,  \* determineNextAction calls issued
  preObs, postObs,  \* observations captured for the step being produced
  stepObs,          \* <<preObs, postObs>> of every appended step
  cycleStartLen,    \* history length when the current cycle began
  cycleMutations,   \* click / type / navigate calls issued in the cycle
  opAfterClose,     \* a page operation was issued after close() returned
  \* one call of BrowserController.click, from the agent's `case 'click'`
  clickPc,            \* position inside the call
  liveMatches,        \* boxes of the live nodes the selector matches, DOM order
  observedElements,   \* pageState.interactiveElements (selector, boundingBox)
  targetBox, count, scanIndex, bestMatch, smallestDifference,
  elementToClick, clickBoundingBox,        \* locals of click
  coordinates, clickError,                 \* what click returned or raised
  dispatchedTo,       \* the node element.click() was dispatched to
  \* one evaluation of extractInteractiveElements in the page
  extractPc, document, seenElements, elementToDataMap, selectorToElement,
  results,
  \* one call of LLMService.determineNextAction
  decidePc, apiCalls, content

vars ==
  <<pc, inflight, error, maxSteps, steps, warned, completed, initialUrl,
    endState, pageState, history, decision, stepNumber, executedAction,
    postActionState, acquired, closed, pageUrl, screenshots, uiStates,
    elementsFiles, summary, errorShot, outcome, cycles, sawCompleting,
    recordedCompleting,
    nextActionCalls, preObs, postObs, stepObs, cycleStartLen, cycleMutations,
    opAfterClose, clickPc, liveMatches, observedElements, targetBox, count,
    scanIndex, bestMatch, smallestDifference, elementToClick,
    clickBoundingBox, coordinates, clickError, dispatchedTo, extractPc,
    document, seenElements, elementToDataMap, selectorToElement, results,
    decidePc, apiCalls, content>>

clickVars ==
  <<clickPc, liveMatches, observedElements, targetBox, count, scanIndex,
    bestMatch, smallestDifference, elementToClick, clickBoundingBox,
    coordinates, clickError, dispatchedTo>>

extractVars ==
  <<extractPc, document, seenElements, elementToDataMap, selectorToElement,
    results>>

decideVars == <<decidePc, apiCalls, content>>

\* no point returned (yet)
NoPoint == <<>>

\* no call of click is being followed
ClickIdle ==
  /\ clickPc = "idle"
  /\ liveMatches = <<>>
  /\ observedElements = <<>>
  /\ targetBox = NullBox
  /\ count = 0
  /\ scanIndex = 0
  /\ bestMatch = NoElement
  /\ smallestDifference = Infinity
  /\ elementToClick = NoElement
  /\ clickBoundingBox = NullBox
  /\ coordinates = NoPoint
  /\ clickError = None
  /\ dispatchedTo = NoElement

\* no extraction is being followed
ExtractIdle ==
  /\ extractPc = "idle"
  /\ document = <<>>
  /\ seenElements = {}
  /\ elementToDataMap = <<>>
  /\ selectorToElement = <<>>
  /\ results = <<>>

\* no call of determineNextAction is being followed
DecideIdle ==
  /\ decidePc = "idle"
  /\ apiCalls = 0
  /\ content = NoDecision

\* state after `new Agent(key, config)` and the call of execute(userTask), up
\* to the first await
Init ==
  /\ pc = "state_initialize"
  /\ inflight = {}
  /\ error = None
  /\ maxSteps \in 0..MaxMaxSteps
  /\ steps = <<>>
  /\ warned = FALSE
  /\ completed = FALSE
  /\ initialUrl = None
  /\ endState = None
  /\ pageState = NoPageState
  /\ history = <<>>
  /\ decision = NoDecision
  /\ stepNumber = 0
  /\ executedAction = NoAction
  /\ postActionState = NoPageState
  /\ acquired = FALSE
  /\ closed = FALSE
  /\ pageUrl = Blank
  /\ screenshots = {}
  /\ uiStates = {}
  /\ elementsFiles = {}
  /\ summary = NoSummary
  /\ errorShot = FALSE
  /\ outcome = None
  /\ cycles = 0
  /\ sawCompleting = FALSE
  /\ recordedCompleting = FALSE
  /\ nextActionCalls = 0
  /\ preObs = 0
  /\ postObs = 0
  /\ stepObs = <<>>
  /\ cycleStartLen = 0
  /\ cycleMutations = 0
  /\ opAfterClose = FALSE
  /\ ClickIdle
  /\ ExtractIdle
  /\ DecideIdle

\* ----------------------------------------------------------------- actions

\* the agent reaches a call: the call is made and, being awaited, the agent
\* suspends on it until it settles
Issue ==
  /\ pc \in AwaitLocs
  /\ pc \notin inflight
  /\ inflight' = inflight \cup {pc}
  /\ pc' = IF Awaited(pc) THEN pc ELSE Succ(pc)
  /\ opAfterClose' = (opAfterClose \/ (closed /\ OpAt(pc) \in PageOps))
  /\ nextActionCalls' =
       IF OpAt(pc) = "llm.determineNextAction"
         THEN nextActionCalls + 1 ELSE nextActionCalls
  /\ cycleMutations' =
       IF OpAt(pc) \in MutatingOps
         THEN cycleMutations + 1 ELSE cycleMutations
  /\ UNCHANGED <<error, maxSteps, steps, warned, completed, initialUrl,
                 endState, pageState, history, decision, stepNumber,
                 executedAction, postActionState, acquired, closed, pageUrl,
                 screenshots, uiStates, elementsFiles, summary, errorShot,
                 outcome, cycles, sawCompleting, recordedCompleting, preObs,
                 postObs, stepObs, cycleStartLen, clickVars, extractVars,
                 decideVars>>

\* a call in flight rejects: the agent awaiting it resumes in the handler of
\* its position.  A failed navigation, click or fill may have moved the page
\* already (each is followed by a settle delay that can reject), but not a
\* click that found no element, which throws before it clicks; a failed
\* initialize may have launched the session already (newPage or setViewportSize
\* rejecting after the launch); a failed close leaves the session open
Throw ==
  /\ \E l \in inflight :
       /\ Awaited(l) => pc = l
       /\ inflight' = inflight \ {l}
       /\ \E e \in ErrOf(OpAt(l)) :
            /\ error' = IF Awaited(l) THEN e ELSE error
            /\ pageUrl' \in IF OpAt(l) \in MutatingOps /\ e # "ElementNotFound"
                              THEN Urls \cup {pageUrl} ELSE {pageUrl}
       /\ pc' = IF Awaited(l) THEN Handler(pc) ELSE pc
       /\ acquired' \in IF OpAt(l) = "browser.initialize"
                          THEN {acquired, TRUE} ELSE {acquired}
  /\ UNCHANGED <<maxSteps, steps, warned, completed, initialUrl, endState,
                 pageState, history, decision, stepNumber, executedAction,
                 postActionState, closed, screenshots, uiStates,
                 elementsFiles, summary, errorShot, outcome, cycles,
                 sawCompleting, recordedCompleting, nextActionCalls, preObs,
                 postObs, stepObs, cycleStartLen, cycleMutations,
                 opAfterClose, clickVars, extractVars, decideVars>>

\* agent.ts:37 WorkflowState.initialize (mkdir) returned
Ret_state_initialize ==
  /\ "state_initialize" \in inflight
  /\ Awaited("state_initialize") => pc = "state_initialize"
  /\ inflight' = inflight \ {"state_initialize"}
  /\ pc' = IF Awaited("state_initialize") THEN Succ("state_initialize") ELSE pc
  /\ UNCHANGED <<error, maxSteps, steps, warned, completed, initialUrl,
                 endState, pageState, history, decision, stepNumber,
                 executedAction, postActionState, acquired, closed, pageUrl,
                 screenshots, uiStates, elementsFiles, summary, errorShot,
                 outcome, cycles, sawCompleting, recordedCompleting,
                 nextActionCalls, preObs, postObs, stepObs, cycleStartLen,
                 cycleMutations, opAfterClose, clickVars, extractVars,
                 decideVars>>

\* agent.ts:39 BrowserController.initialize returned: the session is acquired
Ret_browser_initialize ==
  /\ "browser_initialize" \in inflight
  /\ Awaited("browser_initialize") => pc = "browser_initialize"
  /\ inflight' = inflight \ {"browser_initialize"}
  /\ pc' = IF Awaited("browser_initialize") THEN Succ("browser_initialize") ELSE pc
  /\ acquired' = TRUE
  /\ pageUrl' = Blank
  /\ UNCHANGED <<error, maxSteps, steps, warned, completed, initialUrl,
                 endState, pageState, history, decision, stepNumber,
                 executedAction, postActionState, closed, screenshots,
                 uiStates, elementsFiles, summary, errorShot, outcome,
                 cycles, sawCompleting, recordedCompleting, nextActionCalls,
                 preObs, postObs, stepObs, cycleStartLen, cycleMutations,
                 opAfterClose, clickVars, extractVars, decideVars>>

\* agent.ts:49 the decision engine names the initial URL
Ret_determineInitialUrl ==
  /\ "determineInitialUrl" \in inflight
  /\ Awaited("determineInitialUrl") => pc = "determineInitialUrl"
  /\ inflight' = inflight \ {"determineInitialUrl"}
  /\ pc' = IF Awaited("determineInitialUrl") THEN Succ("determineInitialUrl") ELSE pc
  /\ initialUrl' \in Urls
  /\ UNCHANGED <<error, maxSteps, steps, warned, completed, endState,
                 pageState, history, decision, stepNumber, executedAction,
                 postActionState, acquired, closed, pageUrl, screenshots,
                 uiStates, elementsFiles, summary, errorShot, outcome,
                 cycles, sawCompleting, recordedCompleting, nextActionCalls,
                 preObs, postObs, stepObs, cycleStartLen, cycleMutations,
                 opAfterClose, clickVars, extractVars, decideVars>>

\* agent.ts:52 BrowserController.navigate(initialUrl) returned: after goto and
\* the settle delay the page is where the site put it (redirects included)
Ret_navigate ==
  /\ "navigate" \in inflight
  /\ Awaited("navigate") => pc = "navigate"
  /\ inflight' = inflight \ {"navigate"}
  /\ pc' = IF Awaited("navigate") THEN Succ("navigate") ELSE pc
  /\ pageUrl' \in Urls
  /\ UNCHANGED <<error, maxSteps, steps, warned, completed, initialUrl,
                 endState, pageState, history, decision, stepNumber,
                 executedAction, postActionState, acquired, closed,
                 screenshots, uiStates, elementsFiles, summary, errorShot,
                 outcome, cycles, sawCompleting, recordedCompleting,
                 nextActionCalls, preObs, postObs, stepObs, cycleStartLen,
                 cycleMutations, opAfterClose, clickVars, extractVars,
                 decideVars>>

\* agent.ts:76 step-0-initial.png written
Ret_init_saveScreenshot ==
  /\ "init_saveScreenshot" \in inflight
  /\ Awaited("init_saveScreenshot") => pc = "init_saveScreenshot"
  /\ inflight' = inflight \ {"init_saveScreenshot"}
  /\ pc' = IF Awaited("init_saveScreenshot") THEN Succ("init_saveScreenshot") ELSE pc
  /\ screenshots' = screenshots \cup {ScreenshotPath(0, "initial")}
  /\ UNCHANGED <<error, maxSteps, steps, warned, completed, initialUrl,
                 endState, pageState, history, decision, stepNumber,
                 executedAction, postActionState, acquired, closed, pageUrl,
                 uiStates, elementsFiles, summary, errorShot, outcome,
                 cycles, sawCompleting, recordedCompleting, nextActionCalls,
                 preObs, postObs, stepObs, cycleStartLen, cycleMutations,
                 opAfterClose, clickVars, extractVars, decideVars>>

\* agent.ts:78 the observation of step 0, taken after the initial navigation
Ret_init_capturePageState ==
  /\ "init_capturePageState" \in inflight
  /\ Awaited("init_capturePageState") => pc = "init_capturePageState"
  /\ inflight' = inflight \ {"init_capturePageState"}
  /\ pc' = IF Awaited("init_capturePageState") THEN Succ("init_capturePageState") ELSE pc
  /\ pageState' = capturePageState(pageUrl)
  /\ postObs' = postObs + 1
  /\ UNCHANGED <<error, maxSteps, steps, warned, completed, initialUrl,
                 endState, history, decision, stepNumber, executedAction,
                 postActionState, acquired, closed, pageUrl, screenshots,
                 uiStates, elementsFiles, summary, errorShot, outcome,
                 cycles, sawCompleting, recordedCompleting, nextActionCalls,
                 preObs, stepObs, cycleStartLen, cycleMutations,
                 opAfterClose, clickVars, extractVars, decideVars>>

\* agent.ts:85-99 ui-state-0.json written
Ret_init_writeUiState ==
  /\ "init_writeUiState" \in inflight
  /\ Awaited("init_writeUiState") => pc = "init_writeUiState"
  /\ inflight' = inflight \ {"init_writeUiState"}
  /\ pc' = IF Awaited("init_writeUiState") THEN Succ("init_writeUiState") ELSE pc
  /\ uiStates' = uiStates \cup
       {UiStateData(0, InitialAction(pageState), InitialReasoning, pageState,
                    ScreenshotPath(0, "initial"))}
  /\ UNCHANGED <<error, maxSteps, steps, warned, completed, initialUrl,
                 endState, pageState, history, decision, stepNumber,
                 executedAction, postActionState, acquired, closed, pageUrl,
                 screenshots, elementsFiles, summary, errorShot, outcome,
                 cycles, sawCompleting, recordedCompleting, nextActionCalls,
                 preObs, postObs, stepObs, cycleStartLen, cycleMutations,
                 opAfterClose, clickVars, extractVars, decideVars>>

\* agent.ts:101-102 elements-0.json written
Ret_init_saveElements ==
  /\ "init_saveElements" \in inflight
  /\ Awaited("init_saveElements") => pc = "init_saveElements"
  /\ inflight' = inflight \ {"init_saveElements"}
  /\ pc' = IF Awaited("init_saveElements") THEN Succ("init_saveElements") ELSE pc
  /\ elementsFiles' = elementsFiles \cup {0}
  /\ UNCHANGED <<error, maxSteps, steps, warned, completed, initialUrl,
                 endState, pageState, history, decision, stepNumber,
                 executedAction, postActionState, acquired, closed, pageUrl,
                 screenshots, uiStates, summary, errorShot, outcome, cycles,
                 sawCompleting, recordedCompleting, nextActionCalls, preObs,
                 postObs, stepObs, cycleStartLen, cycleMutations,
                 opAfterClose, clickVars, extractVars, decideVars>>

\* agent.ts:104-110 captureInitialState appends step 0 and returns
InitAddStep ==
  /\ pc = "init_addStep"
  /\ steps' = addStep(steps, InitialAction(pageState), InitialReasoning,
                      ScreenshotPath(0, "initial"))
  /\ stepObs' = Append(stepObs, <<preObs, postObs>>)
  /\ pc' = Succ("init_addStep")
  /\ UNCHANGED <<inflight, error, maxSteps, warned, completed, initialUrl,
                 endState, pageState, history, decision, stepNumber,
                 executedAction, postActionState, acquired, closed, pageUrl,
                 screenshots, uiStates, elementsFiles, summary, errorShot,
                 outcome, cycles, sawCompleting, recordedCompleting,
                 nextActionCalls, preObs, postObs, cycleStartLen,
                 cycleMutations, opAfterClose, clickVars, extractVars,
                 decideVars>>

\* agent.ts:117 the decision engine gives the completion criterion
Ret_determineEndState ==
  /\ "determineEndState" \in inflight
  /\ Awaited("determineEndState") => pc = "determineEndState"
  /\ inflight' = inflight \ {"determineEndState"}
  /\ pc' = IF Awaited("determineEndState") THEN Succ("determineEndState") ELSE pc
  /\ endState' = "criterion"
  /\ UNCHANGED <<error, maxSteps, steps, warned, completed, initialUrl,
                 pageState, history, decision, stepNumber, executedAction,
                 postActionState, acquired, closed, pageUrl, screenshots,
                 uiStates, elementsFiles, summary, errorShot, outcome,
                 cycles, sawCompleting, recordedCompleting, nextActionCalls,
                 preObs, postObs, stepObs, cycleStartLen, cycleMutations,
                 opAfterClose, clickVars, extractVars, decideVars>>

\* agent.ts:120 the while condition; a new cycle starts when it holds
LoopTest ==
  /\ pc = "loop_test"
  /\ IF LoopGuard(completed, steps, maxSteps)
       THEN /\ pc' = "capturePageState"
            /\ preObs' = 0
            /\ postObs' = 0
            /\ cycleStartLen' = Len(steps)
            /\ cycleMutations' = 0
       ELSE /\ pc' = "loop_exit"
            /\ UNCHANGED <<preObs, postObs, cycleStartLen, cycleMutations>>
  /\ UNCHANGED <<inflight, error, maxSteps, steps, warned, completed,
                 initialUrl, endState, pageState, history, decision,
                 stepNumber, executedAction, postActionState, acquired,
                 closed, pageUrl, screenshots, uiStates, elementsFiles,
                 summary, errorShot, outcome, cycles, sawCompleting,
                 recordedCompleting, nextActionCalls, stepObs, opAfterClose,
                 clickVars, extractVars, decideVars>>

\* agent.ts:121-122 pre-action observation, then the copy of the history
Ret_capturePageState ==
  /\ "capturePageState" \in inflight
  /\ Awaited("capturePageState") => pc = "capturePageState"
  /\ inflight' = inflight \ {"capturePageState"}
  /\ pc' = IF Awaited("capturePageState") THEN Succ("capturePageState") ELSE pc
  /\ pageState' = capturePageState(pageUrl)
  /\ history' = getHistory(steps)
  /\ preObs' = preObs + 1
  /\ UNCHANGED <<error, maxSteps, steps, warned, completed, initialUrl,
                 endState, decision, stepNumber, executedAction,
                 postActionState, acquired, closed, pageUrl, screenshots,
                 uiStates, elementsFiles, summary, errorShot, outcome,
                 cycles, sawCompleting, recordedCompleting, nextActionCalls,
                 postObs, stepObs, cycleStartLen, cycleMutations,
                 opAfterClose, clickVars, extractVars, decideVars>>

\* agent.ts:125-132 the decision engine returns a decision
Ret_determineNextAction ==
  /\ "determineNextAction" \in inflight
  /\ Awaited("determineNextAction") => pc = "determineNextAction"
  /\ inflight' = inflight \ {"determineNextAction"}
  /\ pc' = IF Awaited("determineNextAction") THEN Succ("determineNextAction") ELSE pc
  /\ decision' \in Decisions
  /\ sawCompleting' =
       (sawCompleting \/ decision'.completed \/ decision'.action = "complete")
  /\ UNCHANGED <<error, maxSteps, steps, warned, completed, initialUrl,
                 endState, pageState, history, stepNumber, executedAction,
                 postActionState, acquired, closed, pageUrl, screenshots,
                 uiStates, elementsFiles, summary, errorShot, outcome,
                 cycles, recordedCompleting, nextActionCalls, preObs,
                 postObs, stepObs, cycleStartLen, cycleMutations,
                 opAfterClose, clickVars, extractVars, decideVars>>

\* agent.ts:134-187 stepNumber, screenshot name and the switch on decision.action
DispatchAction ==
  /\ pc = "dispatch"
  /\ stepNumber' = getCurrentStepNumber(steps)
  /\ LET r == Dispatch(decision) IN
       CASE r.kind = "throw" ->
              /\ error' = r.arg
              /\ pc' = Handler("dispatch")
              /\ UNCHANGED <<executedAction, completed>>
         [] r.kind = "call" ->
              /\ pc' = r.arg
              /\ UNCHANGED <<error, executedAction, completed>>
         [] r.kind = "done" ->
              /\ executedAction' =
                   IF r.arg = "navigate"
                     THEN ActionRec("navigate", Undef, Undef, Undef,
                                    pageState.url)
                     ELSE ActionRec("complete", Undef, Undef, Undef, Undef)
              /\ completed' = (completed \/ r.arg = "complete")
              /\ pc' = "saveScreenshot"
              /\ UNCHANGED error
  /\ UNCHANGED <<inflight, maxSteps, steps, warned, initialUrl, endState,
                 pageState, history, decision, postActionState, acquired,
                 closed, pageUrl, screenshots, uiStates, elementsFiles,
                 summary, errorShot, outcome, cycles, sawCompleting,
                 recordedCompleting, nextActionCalls, preObs, postObs,
                 stepObs, cycleStartLen, cycleMutations, opAfterClose,
                 clickVars, extractVars, decideVars>>

\* agent.ts:151-157 BrowserController.click returned the click point; the page reacts
Ret_click ==
  /\ "click" \in inflight
  /\ Awaited("click") => pc = "click"
  /\ inflight' = inflight \ {"click"}
  /\ pc' = IF Awaited("click") THEN Succ("click") ELSE pc
  /\ \E c \in ClickPoints :
       executedAction' = ActionRec("click", decision.selector, c, Undef, Undef)
  /\ pageUrl' \in Urls
  /\ UNCHANGED <<error, maxSteps, steps, warned, completed, initialUrl,
                 endState, pageState, history, decision, stepNumber,
                 postActionState, acquired, closed, screenshots, uiStates,
                 elementsFiles, summary, errorShot, outcome, cycles,
                 sawCompleting, recordedCompleting, nextActionCalls, preObs,
                 postObs, stepObs, cycleStartLen, cycleMutations,
                 opAfterClose, clickVars, extractVars, decideVars>>

\* agent.ts:163-169 BrowserController.type returned
Ret_type ==
  /\ "type" \in inflight
  /\ Awaited("type") => pc = "type"
  /\ inflight' = inflight \ {"type"}
  /\ pc' = IF Awaited("type") THEN Succ("type") ELSE pc
  /\ executedAction' =
       ActionRec("type", decision.selector, Undef, decision.text, Undef)
  /\ pageUrl' \in Urls
  /\ UNCHANGED <<error, maxSteps, steps, warned, completed, initialUrl,
                 endState, pageState, history, decision, stepNumber,
                 postActionState, acquired, closed, screenshots, uiStates,
                 elementsFiles, summary, errorShot, outcome, cycles,
                 sawCompleting, recordedCompleting, nextActionCalls, preObs,
                 postObs, stepObs, cycleStartLen, cycleMutations,
                 opAfterClose, clickVars, extractVars, decideVars>>

\* agent.ts:189 step-<n>-<action>.png written
Ret_saveScreenshot ==
  /\ "saveScreenshot" \in inflight
  /\ Awaited("saveScreenshot") => pc = "saveScreenshot"
  /\ inflight' = inflight \ {"saveScreenshot"}
  /\ pc' = IF Awaited("saveScreenshot") THEN Succ("saveScreenshot") ELSE pc
  /\ screenshots' = screenshots \cup {ScreenshotPath(stepNumber, decision.action)}
  /\ UNCHANGED <<error, maxSteps, steps, warned, completed, initialUrl,
                 endState, pageState, history, decision, stepNumber,
                 executedAction, postActionState, acquired, closed, pageUrl,
                 uiStates, elementsFiles, summary, errorShot, outcome,
                 cycles, sawCompleting, recordedCompleting, nextActionCalls,
                 preObs, postObs, stepObs, cycleStartLen, cycleMutations,
                 opAfterClose, clickVars, extractVars, decideVars>>

\* agent.ts:191 post-action observation
Ret_post_capturePageState ==
  /\ "post_capturePageState" \in inflight
  /\ Awaited("post_capturePageState") => pc = "post_capturePageState"
  /\ inflight' = inflight \ {"post_capturePageState"}
  /\ pc' = IF Awaited("post_capturePageState") THEN Succ("post_capturePageState") ELSE pc
  /\ postActionState' = capturePageState(pageUrl)
  /\ postObs' = postObs + 1
  /\ UNCHANGED <<error, maxSteps, steps, warned, completed, initialUrl,
                 endState, pageState, history, decision, stepNumber,
                 executedAction, acquired, closed, pageUrl, screenshots,
                 uiStates, elementsFiles, summary, errorShot, outcome,
                 cycles, sawCompleting, recordedCompleting, nextActionCalls,
                 preObs, stepObs, cycleStartLen, cycleMutations,
                 opAfterClose, clickVars, extractVars, decideVars>>

\* agent.ts:193-209 ui-state-<n>.json written
Ret_writeUiState ==
  /\ "writeUiState" \in inflight
  /\ Awaited("writeUiState") => pc = "writeUiState"
  /\ inflight' = inflight \ {"writeUiState"}
  /\ pc' = IF Awaited("writeUiState") THEN Succ("writeUiState") ELSE pc
  /\ uiStates' = uiStates \cup
       {UiStateData(stepNumber, executedAction, decision.reasoning,
                    postActionState,
                    ScreenshotPath(stepNumber, decision.action))}
  /\ UNCHANGED <<error, maxSteps, steps, warned, completed, initialUrl,
                 endState, pageState, history, decision, stepNumber,
                 executedAction, postActionState, acquired, closed, pageUrl,
                 screenshots, elementsFiles, summary, errorShot, outcome,
                 cycles, sawCompleting, recordedCompleting, nextActionCalls,
                 preObs, postObs, stepObs, cycleStartLen, cycleMutations,
                 opAfterClose, clickVars, extractVars, decideVars>>

\* agent.ts:211-213 elements-<n>.json written
Ret_saveElements ==
  /\ "saveElements" \in inflight
  /\ Awaited("saveElements") => pc = "saveElements"
  /\ inflight' = inflight \ {"saveElements"}
  /\ pc' = IF Awaited("saveElements") THEN Succ("saveElements") ELSE pc
  /\ elementsFiles' = elementsFiles \cup {stepNumber}
  /\ UNCHANGED <<error, maxSteps, steps, warned, completed, initialUrl,
                 endState, pageState, history, decision, stepNumber,
                 executedAction, postActionState, acquired, closed, pageUrl,
                 screenshots, uiStates, summary, errorShot, outcome, cycles,
                 sawCompleting, recordedCompleting, nextActionCalls, preObs,
                 postObs, stepObs, cycleStartLen, cycleMutations,
                 opAfterClose, clickVars, extractVars, decideVars>>

\* agent.ts:215-220 the step is appended; decision.completed ends the loop
AddStep ==
  /\ pc = "addStep"
  /\ steps' = addStep(steps, executedAction, decision.reasoning,
                      ScreenshotPath(stepNumber, decision.action))
  /\ stepObs' = Append(stepObs, <<preObs, postObs>>)
  /\ cycles' = cycles + 1
  /\ recordedCompleting' =
       (recordedCompleting \/ decision.completed \/ decision.action = "complete")
  /\ completed' = (completed \/ decision.completed)
  /\ pc' = Succ("addStep")
  /\ UNCHANGED <<inflight, error, maxSteps, warned, initialUrl, endState,
                 pageState, history, decision, stepNumber, executedAction,
                 postActionState, acquired, closed, pageUrl, screenshots,
                 uiStates, elementsFiles, summary, errorShot, outcome,
                 sawCompleting, nextActionCalls, preObs, postObs,
                 cycleStartLen, cycleMutations, opAfterClose, clickVars,
                 extractVars, decideVars>>

\* agent.ts:223-226 after the loop: the warning when not completed, then return
LoopExit ==
  /\ pc = "loop_exit"
  /\ warned' = ~completed
  /\ outcome' = IF completed THEN "Completed" ELSE "Exhausted"
  /\ pc' = Succ("loop_exit")
  /\ UNCHANGED <<inflight, error, maxSteps, steps, completed, initialUrl,
                 endState, pageState, history, decision, stepNumber,
                 executedAction, postActionState, acquired, closed, pageUrl,
                 screenshots, uiStates, elementsFiles, summary, errorShot,
                 cycles, sawCompleting, recordedCompleting, nextActionCalls,
                 preObs, postObs, stepObs, cycleStartLen, cycleMutations,
                 opAfterClose, clickVars, extractVars, decideVars>>

\* agent.ts:57 workflow-summary.json written
Ret_exportSummary ==
  /\ "exportSummary" \in inflight
  /\ Awaited("exportSummary") => pc = "exportSummary"
  /\ inflight' = inflight \ {"exportSummary"}
  /\ pc' = IF Awaited("exportSummary") THEN Succ("exportSummary") ELSE pc
  /\ summary' = exportSummary(steps)
  /\ UNCHANGED <<error, maxSteps, steps, warned, completed, initialUrl,
                 endState, pageState, history, decision, stepNumber,
                 executedAction, postActionState, acquired, closed, pageUrl,
                 screenshots, uiStates, elementsFiles, errorShot, outcome,
                 cycles, sawCompleting, recordedCompleting, nextActionCalls,
                 preObs, postObs, stepObs, cycleStartLen, cycleMutations,
                 opAfterClose, clickVars, extractVars, decideVars>>

\* agent.ts:60 keepAlive(60) elapsed; the try block ends and finally runs
Ret_keepAlive ==
  /\ "keepAlive" \in inflight
  /\ Awaited("keepAlive") => pc = "keepAlive"
  /\ inflight' = inflight \ {"keepAlive"}
  /\ pc' = IF Awaited("keepAlive") THEN Succ("keepAlive") ELSE pc
  /\ UNCHANGED <<error, maxSteps, steps, warned, completed, initialUrl,
                 endState, pageState, history, decision, stepNumber,
                 executedAction, postActionState, acquired, closed, pageUrl,
                 screenshots, uiStates, elementsFiles, summary, errorShot,
                 outcome, cycles, sawCompleting, recordedCompleting,
                 nextActionCalls, preObs, postObs, stepObs, cycleStartLen,
                 cycleMutations, opAfterClose, clickVars, extractVars,
                 decideVars>>

\* agent.ts:61-66 error.png written; the error is rethrown and finally runs
Ret_catch_saveScreenshot ==
  /\ "catch_saveScreenshot" \in inflight
  /\ Awaited("catch_saveScreenshot") => pc = "catch_saveScreenshot"
  /\ inflight' = inflight \ {"catch_saveScreenshot"}
  /\ pc' = IF Awaited("catch_saveScreenshot") THEN Succ("catch_saveScreenshot") ELSE pc
  /\ errorShot' = TRUE
  /\ UNCHANGED <<error, maxSteps, steps, warned, completed, initialUrl,
                 endState, pageState, history, decision, stepNumber,
                 executedAction, postActionState, acquired, closed, pageUrl,
                 screenshots, uiStates, elementsFiles, summary, outcome,
                 cycles, sawCompleting, recordedCompleting, nextActionCalls,
                 preObs, postObs, stepObs, cycleStartLen, cycleMutations,
                 opAfterClose, clickVars, extractVars, decideVars>>

\* agent.ts:67-69 BrowserController.close returned; execute settles
Ret_finally_close ==
  /\ "finally_close" \in inflight
  /\ Awaited("finally_close") => pc = "finally_close"
  /\ inflight' = inflight \ {"finally_close"}
  /\ pc' = IF Awaited("finally_close") THEN Succ("finally_close") ELSE pc
  /\ closed' = TRUE
  /\ UNCHANGED <<error, maxSteps, steps, warned, completed, initialUrl,
                 endState, pageState, history, decision, stepNumber,
                 executedAction, postActionState, acquired, pageUrl,
                 screenshots, uiStates, elementsFiles, summary, errorShot,
                 outcome, cycles, sawCompleting, recordedCompleting,
                 nextActionCalls, preObs, postObs, stepObs, cycleStartLen,
                 cycleMutations, opAfterClose, clickVars, extractVars,
                 decideVars>>

Next ==
  \/ Issue
  \/ Throw
  \/ Ret_state_initialize
  \/ Ret_browser_initialize
  \/ Ret_determineInitialUrl
  \/ Ret_navigate
  \/ Ret_init_saveScreenshot
  \/ Ret_init_capturePageState
  \/ Ret_init_writeUiState
  \/ Ret_init_saveElements
  \/ InitAddStep
  \/ Ret_determineEndState
  \/ LoopTest
  \/ Ret_capturePageState
  \/ Ret_determineNextAction
  \/ DispatchAction
  \/ Ret_click
  \/ Ret_type
  \/ Ret_saveScreenshot
  \/ Ret_post_capturePageState
  \/ Ret_writeUiState
  \/ Ret_saveElements
  \/ AddStep
  \/ LoopExit
  \/ Ret_exportSummary
  \/ Ret_keepAlive
  \/ Ret_catch_saveScreenshot
  \/ Ret_finally_close

Spec == Init /\ [][Next]_vars

\* every awaited call settles and synchronous code runs on: the run never
\* stops at a position other than the end of execute
FairSpec == Spec /\ WF_vars(Next)

\* ------------------------------------------- BrowserController.click (steps)
\* the history after captureInitialState on a page at url
HistoryAfterBootstrap(url) ==
  addStep(<<>>, InitialAction(capturePageState(url)), InitialReasoning,
          ScreenshotPath(0, "initial"))

\* the agent in its first cycle, after bootstrap on page "u0", with decision d
\* taken: at position p with the calls inf in flight
AgentInFirstCycle(p, inf, d, mutations) ==
  /\ pc = p
  /\ inflight = inf
  /\ error = None
  /\ maxSteps = MaxMaxSteps
  /\ steps = HistoryAfterBootstrap("u0")
  /\ warned = FALSE
  /\ completed = FALSE
  /\ initialUrl = "u0"
  /\ endState = "criterion"
  /\ pageState = capturePageState("u0")
  /\ history = IF p = "capturePageState"
                 THEN <<>> ELSE getHistory(HistoryAfterBootstrap("u0"))
  /\ decision = d
  /\ stepNumber = IF p \in {"capturePageState", "determineNextAction"}
                    THEN 0 ELSE 1
  /\ executedAction = NoAction
  /\ postActionState = NoPageState
  /\ acquired = TRUE
  /\ closed = FALSE
  /\ pageUrl = "u0"
  /\ screenshots = {ScreenshotPath(0, "initial")}
  /\ uiStates =
       {UiStateData(0, InitialAction(capturePageState("u0")),
                    InitialReasoning, capturePageState("u0"),
                    ScreenshotPath(0, "initial"))}
  /\ elementsFiles = {0}
  /\ summary = NoSummary
  /\ errorShot = FALSE
  /\ outcome = None
  /\ cycles = 0
  /\ sawCompleting = FALSE
  /\ recordedCompleting = FALSE
  /\ nextActionCalls = IF p = "capturePageState" THEN 0 ELSE 1
  /\ preObs = IF p = "capturePageState" THEN 0 ELSE 1
  /\ postObs = 0
  /\ stepObs = <<<<0, 1>>>>
  /\ cycleStartLen = 1
  /\ cycleMutations = mutations
  /\ opAfterClose = FALSE

\* the click decisions that reach browser.click
ClickDecisions ==
  {d \in Decisions : d.action = "click" /\ ~Falsy(d.selector) /\ ~d.completed
                     /\ d.text = Undef}

\* live nodes matched by the decision's selector at click time: their
\* bounding boxes in DOM order (NullBox: the node is not rendered)
MatchLists ==
  UNION {[1..n -> Boxes \cup {NullBox}] : n \in 0..MaxMatches}

\* the observation the decision was taken on: at most two elements with
\* distinct selectors (the list is deduplicated), each with its box
ObservedEntries == [selector : {"#a", "#b"}, boundingBox : Boxes]

ObservedLists ==
  {<<>>} \cup {<<e>> : e \in ObservedEntries}
    \cup {<<e, f>> : e \in {g \in ObservedEntries : g.selector = "#b"},
                     f \in {g \in ObservedEntries : g.selector = "#a"}}

\* the agent has taken a click decision and is about to call browser.click
ClickInit ==
  /\ \E d \in ClickDecisions : AgentInFirstCycle("click", {"click"}, d, 1)
  /\ clickPc = "call"
  /\ liveMatches \in MatchLists
  /\ observedElements \in ObservedLists
  /\ targetBox = NullBox
  /\ count = 0
  /\ scanIndex = 0
  /\ bestMatch = NoElement
  /\ smallestDifference = Infinity
  /\ elementToClick = NoElement
  /\ clickBoundingBox = NullBox
  /\ coordinates = NoPoint
  /\ clickError = None
  /\ dispatchedTo = NoElement
  /\ ExtractIdle
  /\ DecideIdle


\* agent.ts:145-151 the target box is looked up in the observation and click is called
ClickCall ==
  /\ clickPc = "call"
  /\ targetBox' = TargetBoxOf(observedElements, decision.selector)
  /\ clickPc' = "count"
  /\ UNCHANGED <<pc, inflight, error, maxSteps, steps, warned, completed,
                 initialUrl, endState, pageState, history, decision,
                 stepNumber, executedAction, postActionState, acquired,
                 closed, pageUrl, screenshots, uiStates, elementsFiles,
                 summary, errorShot, outcome, cycles, sawCompleting,
                 recordedCompleting, nextActionCalls, preObs, postObs,
                 stepObs, cycleStartLen, cycleMutations, opAfterClose,
                 liveMatches, observedElements, count, scanIndex, bestMatch,
                 smallestDifference, elementToClick, clickBoundingBox,
                 coordinates, clickError, dispatchedTo, extractVars,
                 decideVars>>

\* part_003:84-91 locator.count(), the locals, and the test for the geometry pass
ClickCount ==
  /\ clickPc = "count"
  /\ count' = Len(liveMatches)
  /\ elementToClick' = NoElement
  /\ clickBoundingBox' = NullBox
  /\ bestMatch' = NoElement
  /\ smallestDifference' = Infinity
  /\ scanIndex' = 1
  /\ clickPc' = IF UsesGeometry(targetBox, Len(liveMatches))
                  THEN "scan" ELSE "fallback"
  /\ UNCHANGED <<pc, inflight, error, maxSteps, steps, warned, completed,
                 initialUrl, endState, pageState, history, decision,
                 stepNumber, executedAction, postActionState, acquired,
                 closed, pageUrl, screenshots, uiStates, elementsFiles,
                 summary, errorShot, outcome, cycles, sawCompleting,
                 recordedCompleting, nextActionCalls, preObs, postObs,
                 stepObs, cycleStartLen, cycleMutations, opAfterClose,
                 liveMatches, observedElements, targetBox, coordinates,
                 clickError, dispatchedTo, extractVars, decideVars>>

\* part_003:96-114 one iteration of the loop over the matches
ClickScan ==
  /\ clickPc = "scan"
  /\ scanIndex <= count
  /\ LET box == liveMatches[scanIndex] IN
       IF box # NullBox /\ IsCloser(BoxDiff(box, targetBox), smallestDifference)
         THEN /\ smallestDifference' = BoxDiff(box, targetBox)
              /\ bestMatch' = scanIndex
              /\ clickBoundingBox' = box
         ELSE UNCHANGED <<smallestDifference, bestMatch, clickBoundingBox>>
  /\ scanIndex' = scanIndex + 1
  /\ UNCHANGED <<pc, inflight, error, maxSteps, steps, warned, completed,
                 initialUrl, endState, pageState, history, decision,
                 stepNumber, executedAction, postActionState, acquired,
                 closed, pageUrl, screenshots, uiStates, elementsFiles,
                 summary, errorShot, outcome, cycles, sawCompleting,
                 recordedCompleting, nextActionCalls, preObs, postObs,
                 stepObs, cycleStartLen, cycleMutations, opAfterClose,
                 clickPc, liveMatches, observedElements, targetBox, count,
                 elementToClick, coordinates, clickError, dispatchedTo,
                 extractVars, decideVars>>

\* part_003:96,116-119 the loop ends; the best match, if any, is the element to click
ClickScanEnd ==
  /\ clickPc = "scan"
  /\ scanIndex > count
  /\ elementToClick' = bestMatch
  /\ clickPc' = "fallback"
  /\ UNCHANGED <<pc, inflight, error, maxSteps, steps, warned, completed,
                 initialUrl, endState, pageState, history, decision,
                 stepNumber, executedAction, postActionState, acquired,
                 closed, pageUrl, screenshots, uiStates, elementsFiles,
                 summary, errorShot, outcome, cycles, sawCompleting,
                 recordedCompleting, nextActionCalls, preObs, postObs,
                 stepObs, cycleStartLen, cycleMutations, opAfterClose,
                 liveMatches, observedElements, targetBox, count, scanIndex,
                 bestMatch, smallestDifference, clickBoundingBox,
                 coordinates, clickError, dispatchedTo, extractVars,
                 decideVars>>

\* part_003:121-125 without an element so far, the first match is taken;
\* boundingBox() is null when no node matches or the node is not rendered
ClickFallback ==
  /\ clickPc = "fallback"
  /\ IF elementToClick = NoElement
       THEN /\ elementToClick' = first(liveMatches)
            /\ clickBoundingBox' =
                 IF Len(liveMatches) >= 1
                   THEN liveMatches[first(liveMatches)] ELSE NullBox
       ELSE UNCHANGED <<elementToClick, clickBoundingBox>>
  /\ clickPc' = "check"
  /\ UNCHANGED <<pc, inflight, error, maxSteps, steps, warned, completed,
                 initialUrl, endState, pageState, history, decision,
                 stepNumber, executedAction, postActionState, acquired,
                 closed, pageUrl, screenshots, uiStates, elementsFiles,
                 summary, errorShot, outcome, cycles, sawCompleting,
                 recordedCompleting, nextActionCalls, preObs, postObs,
                 stepObs, cycleStartLen, cycleMutations, opAfterClose,
                 liveMatches, observedElements, targetBox, count, scanIndex,
                 bestMatch, smallestDifference, coordinates, clickError,
                 dispatchedTo, extractVars, decideVars>>

\* variant: the node is clicked before its box is tested
ClickCheck_clicksFirst ==
  /\ clickPc = "check"
  /\ dispatchedTo' = elementToClick
  /\ IF clickBoundingBox = NullBox
       THEN /\ clickError' = "ElementNotFound"
            /\ clickPc' = "failed"
            /\ UNCHANGED coordinates
       ELSE /\ coordinates' = ClickPoint(clickBoundingBox)
            /\ clickPc' = "dispatch"
            /\ UNCHANGED clickError
  /\ UNCHANGED <<pc, inflight, error, maxSteps, steps, warned, completed,
                 initialUrl, endState, pageState, history, decision,
                 stepNumber, executedAction, postActionState, acquired,
                 closed, pageUrl, screenshots, uiStates, elementsFiles,
                 summary, errorShot, outcome, cycles, sawCompleting,
                 recordedCompleting, nextActionCalls, preObs, postObs,
                 stepObs, cycleStartLen, cycleMutations, opAfterClose,
                 liveMatches, observedElements, targetBox, count, scanIndex,
                 bestMatch, smallestDifference, elementToClick,
                 clickBoundingBox, extractVars, decideVars>>

\* part_003:127-134 no box: the error is thrown; otherwise the click point is computed
ClickCheck ==
  /\ clickPc = "check"
  /\ IF clickBoundingBox = NullBox
       THEN /\ clickError' = "ElementNotFound"
            /\ clickPc' = "failed"
            /\ UNCHANGED coordinates
       ELSE /\ coordinates' = ClickPoint(clickBoundingBox)
            /\ clickPc' = "dispatch"
            /\ UNCHANGED clickError
  /\ UNCHANGED <<pc, inflight, error, maxSteps, steps, warned, completed,
                 initialUrl, endState, pageState, history, decision,
                 stepNumber, executedAction, postActionState, acquired,
                 closed, pageUrl, screenshots, uiStates, elementsFiles,
                 summary, errorShot, outcome, cycles, sawCompleting,
                 recordedCompleting, nextActionCalls, preObs, postObs,
                 stepObs, cycleStartLen, cycleMutations, opAfterClose,
                 liveMatches, observedElements, targetBox, count, scanIndex,
                 bestMatch, smallestDifference, elementToClick,
                 clickBoundingBox, dispatchedTo, extractVars, decideVars>>

\* part_003:136 elementToClick.click() resolves: the node was clicked and the page reacts
ClickDispatch ==
  /\ clickPc = "dispatch"
  /\ dispatchedTo' = elementToClick
  /\ pageUrl' \in Urls
  /\ clickPc' = "wait"
  /\ UNCHANGED <<pc, inflight, error, maxSteps, steps, warned, completed,
                 initialUrl, endState, pageState, history, decision,
                 stepNumber, executedAction, postActionState, acquired,
                 closed, screenshots, uiStates, elementsFiles, summary,
                 errorShot, outcome, cycles, sawCompleting,
                 recordedCompleting, nextActionCalls, preObs, postObs,
                 stepObs, cycleStartLen, cycleMutations, opAfterClose,
                 liveMatches, observedElements, targetBox, count, scanIndex,
                 bestMatch, smallestDifference, elementToClick,
                 clickBoundingBox, coordinates, clickError, extractVars,
                 decideVars>>

\* part_003:137-139 the settle delay, during which the page may still move; return { x, y }
ClickWait ==
  /\ clickPc = "wait"
  /\ pageUrl' \in Urls
  /\ clickPc' = "returned"
  /\ UNCHANGED <<pc, inflight, error, maxSteps, steps, warned, completed,
                 initialUrl, endState, pageState, history, decision,
                 stepNumber, executedAction, postActionState, acquired,
                 closed, screenshots, uiStates, elementsFiles, summary,
                 errorShot, outcome, cycles, sawCompleting,
                 recordedCompleting, nextActionCalls, preObs, postObs,
                 stepObs, cycleStartLen, cycleMutations, opAfterClose,
                 liveMatches, observedElements, targetBox, count, scanIndex,
                 bestMatch, smallestDifference, elementToClick,
                 clickBoundingBox, coordinates, clickError, dispatchedTo,
                 extractVars, decideVars>>

\* part_003:84, 98, 124, 136, 137 an awaited Playwright call of click rejects:
\* click rejects with that error.  Before element.click() resolved nothing was
\* clicked; element.click() may reject after it took effect, and when the
\* settle delay rejects the node was clicked: the page may have moved
ClickCallRejects ==
  /\ \/ /\ \/ clickPc = "count"
           \/ clickPc = "scan" /\ scanIndex <= count
           \/ clickPc = "fallback" /\ elementToClick = NoElement
           \/ clickPc = "dispatch"
        /\ pageUrl' = pageUrl
        /\ dispatchedTo' = dispatchedTo
     \/ /\ clickPc = "dispatch"
        /\ dispatchedTo' = elementToClick
        /\ pageUrl' \in Urls
     \/ /\ clickPc = "wait"
        /\ dispatchedTo' = dispatchedTo
        /\ pageUrl' \in Urls
  /\ clickError' = "BrowserError"
  /\ clickPc' = "failed"
  /\ UNCHANGED <<pc, inflight, error, maxSteps, steps, warned, completed,
                 initialUrl, endState, pageState, history, decision,
                 stepNumber, executedAction, postActionState, acquired,
                 closed, screenshots, uiStates, elementsFiles, summary,
                 errorShot, outcome, cycles, sawCompleting,
                 recordedCompleting, nextActionCalls, preObs, postObs,
                 stepObs, cycleStartLen, cycleMutations, opAfterClose,
                 liveMatches, observedElements, targetBox, count, scanIndex,
                 bestMatch, smallestDifference, elementToClick,
                 clickBoundingBox, coordinates, extractVars, decideVars>>

\* agent.ts:151-157 the await of browser.click resolves: the executed action is
\* built from the returned point
ClickReturn ==
  /\ clickPc = "returned"
  /\ "click" \in inflight
  /\ Awaited("click") => pc = "click"
  /\ inflight' = inflight \ {"click"}
  /\ pc' = IF Awaited("click") THEN Succ("click") ELSE pc
  /\ executedAction' =
       ActionRec("click", decision.selector, coordinates, Undef, Undef)
  /\ clickPc' = "settled"
  /\ UNCHANGED <<error, maxSteps, steps, warned, completed, initialUrl,
                 endState, pageState, history, decision, stepNumber,
                 postActionState, acquired, closed, pageUrl, screenshots,
                 uiStates, elementsFiles, summary, errorShot, outcome,
                 cycles, sawCompleting, recordedCompleting, nextActionCalls,
                 preObs, postObs, stepObs, cycleStartLen, cycleMutations,
                 opAfterClose, liveMatches, observedElements, targetBox,
                 count, scanIndex, bestMatch, smallestDifference,
                 elementToClick, clickBoundingBox, coordinates, clickError,
                 dispatchedTo, extractVars, decideVars>>

\* agent.ts:151, 61-69 the await of browser.click rejects: the error leaves the
\* loop for the catch block of execute
ClickReject ==
  /\ clickPc = "failed"
  /\ "click" \in inflight
  /\ Awaited("click") => pc = "click"
  /\ inflight' = inflight \ {"click"}
  /\ error' = IF Awaited("click") THEN clickError ELSE error
  /\ pc' = IF Awaited("click") THEN Handler(pc) ELSE pc
  /\ clickPc' = "rejected"
  /\ UNCHANGED <<maxSteps, steps, warned, completed, initialUrl, endState,
                 pageState, history, decision, stepNumber, executedAction,
                 postActionState, acquired, closed, pageUrl, screenshots,
                 uiStates, elementsFiles, summary, errorShot, outcome,
                 cycles, sawCompleting, recordedCompleting, nextActionCalls,
                 preObs, postObs, stepObs, cycleStartLen, cycleMutations,
                 opAfterClose, liveMatches, observedElements, targetBox,
                 count, scanIndex, bestMatch, smallestDifference,
                 elementToClick, clickBoundingBox, coordinates, clickError,
                 dispatchedTo, extractVars, decideVars>>

\* agent.ts:189-213, 63-69 the agent reaches the next call of the cycle, or of
\* the catch and finally blocks, once browser.click has settled
IssueAfterClick == "click" \notin inflight /\ Issue

\* the same calls rejecting
ThrowAfterClick == "click" \notin inflight /\ Throw

ClickNext ==
  \/ ClickCall
  \/ ClickCount
  \/ ClickScan
  \/ ClickScanEnd
  \/ ClickFallback
  \/ ClickCheck
  \/ ClickDispatch
  \/ ClickWait
  \/ ClickCallRejects
  \/ ClickReturn
  \/ ClickReject
  \/ IssueAfterClick
  \/ ThrowAfterClick
  \/ Ret_saveScreenshot
  \/ Ret_post_capturePageState
  \/ Ret_writeUiState
  \/ Ret_saveElements
  \/ AddStep
  \/ Ret_catch_saveScreenshot
  \/ Ret_finally_close

\* the cycle of one click decision, from the target lookup to the recorded step
\* or to the end of execute when the cycle fails
ClickSpec == ClickInit /\ [][ClickNext]_vars

\* ------------------------------------- extractInteractiveElements (strings)
\* getAttribute() of an attribute the node does not have
Null == "null"

\* JavaScript truthiness of a string-or-missing value
Truthy(v) == v \notin {Null, Undef, ""}

\* `v || undefined`
OrUndefined(v) == IF Truthy(v) THEN v ELSE Undef

WhiteSpace == {" ", "\n", "\t"}

RECURSIVE trimStart(_)
trimStart(s) ==
  IF s # "" /\ Head(s) \in WhiteSpace THEN trimStart(Tail(s)) ELSE s

RECURSIVE trimEnd(_)
trimEnd(s) ==
  IF s # "" /\ SubSeq(s, Len(s), Len(s)) \in WhiteSpace
    THEN trimEnd(SubSeq(s, 1, Len(s) - 1))
    ELSE s

\* String.prototype.trim
trim(s) == trimEnd(trimStart(s))

\* s.slice(0, n)
slice(s, n) == IF Len(s) <= n THEN s ELSE SubSeq(s, 1, n)

\* s.includes(sub)
includes(s, sub) ==
  \E i \in 1..(Len(s) - Len(sub) + 1) : SubSeq(s, i, i + Len(sub) - 1) = sub

\* the lower-case letter of each upper-case letter
LowerOf ==
  LET UpperCase == "ABCDEFGHIJKLMNOPQRSTUVWXYZ"
      LowerCase == "abcdefghijklmnopqrstuvwxyz"
      at == [i \in 1..26 |-> SubSeq(UpperCase, i, i)]
  IN [c \in {at[i] : i \in 1..26} |->
        LET i == CHOOSE i \in 1..26 : at[i] = c
        IN SubSeq(LowerCase, i, i)]

\* String.prototype.toLowerCase (ASCII letters)
RECURSIVE toLowerCase(_)
toLowerCase(s) ==
  IF s = "" THEN ""
  ELSE LET c == Head(s)
       IN (IF c \in DOMAIN LowerOf THEN LowerOf[c] ELSE c)
          \o toLowerCase(Tail(s))

\* text.replace(/"/g, '\\"')
RECURSIVE escapeQuotes(_)
escapeQuotes(s) ==
  IF s = "" THEN ""
  ELSE (IF Head(s) = "\"" THEN "\\\"" ELSE Head(s)) \o escapeQuotes(Tail(s))

\* s.split(' ')
RECURSIVE split(_)
split(s) ==
  LET hits == {i \in 1..Len(s) : SubSeq(s, i, i) = " "} IN
    IF hits = {} THEN <<s>>
    ELSE LET i == CHOOSE i \in hits : \A j \in hits : i <= j
         IN <<SubSeq(s, 1, i - 1)>> \o split(SubSeq(s, i + 1, Len(s)))

\* /^[0-9]/.test(c)
startsWithDigit(c) ==
  c # "" /\ Head(c) \in {"0", "1", "2", "3", "4", "5", "6", "7", "8", "9"}

\* tokens.join('.')
RECURSIVE join(_)
join(tokens) ==
  IF tokens = <<>> THEN ""
  ELSE IF Len(tokens) = 1 THEN tokens[1]
  ELSE tokens[1] \o "." \o join(Tail(tokens))

\* tokens.slice(0, n)
take(tokens, n) ==
  IF Len(tokens) <= n THEN tokens ELSE SubSeq(tokens, 1, n)

\* className.split(' ').filter(c => c && !/^[0-9]/.test(c)).slice(0, 2).join('.')
classes(className) ==
  LET usable(c) == c # "" /\ ~startsWithDigit(c)
  IN join(take(SelectSeq(split(className), usable), 2))

\* ---------------------------------------- extractInteractiveElements (DOM)
\* A document is a sequence of element nodes in document order; `parent` is
\* the index of the parent element, 0 for a child of <body>.  The attribute
\* fields hold what getAttribute returns (Null when absent); id and className
\* hold the reflected property (the empty string when absent); rect and the
\* four style fields hold getBoundingClientRect() and getComputedStyle().
NormalRect == [x |-> 10, y |-> 20, width |-> 40, height |-> 24]

PlainNode(tag) ==
  [tag |-> tag, role |-> Null, testId |-> Null, ariaLabel |-> Null,
   placeholder |-> Null, text |-> "", contentEditable |-> Null,
   name |-> Null, type |-> Null, id |-> "", className |-> "",
   onclick |-> FALSE, cursor |-> "auto", rect |-> NormalRect,
   visibility |-> "visible", display |-> "block", opacity |-> "1",
   pointerEvents |-> "auto", parent |-> 0]

\* el.tagName.toLowerCase()
tagName(n) == toLowerCase(n.tag)

\* HTMLInputElement.placeholder: a reflected property of input and textarea
placeholderOf(n) ==
  IF tagName(n) \in {"input", "textarea"}
    THEN (IF n.placeholder = Null THEN "" ELSE n.placeholder)
    ELSE Undef

\* .name: a reflected property of the form controls and of <a>
nameOf(n) ==
  IF tagName(n) \in {"input", "textarea", "select", "button", "a"}
    THEN (IF n.name = Null THEN "" ELSE n.name)
    ELSE Undef

InputTypes == {"text", "email", "password", "search", "tel", "url",
               "checkbox", "radio", "submit"}

\* .type: for <input> the attribute if it names a known type, else "text"
typeOf(n) ==
  CASE tagName(n) = "input" ->
         IF n.type \in InputTypes THEN n.type ELSE "text"
    [] tagName(n) = "button" ->
         IF n.type \in {"submit", "reset", "button"} THEN n.type ELSE "submit"
    [] tagName(n) = "textarea" -> "textarea"
    [] tagName(n) = "select" -> "select-one"
    [] tagName(n) = "a" -> IF n.type = Null THEN "" ELSE n.type
    [] OTHER -> Undef

\* htmlEl.contentEditable === 'true'
contentEditableOf(n) == n.contentEditable = "true"

VoidTags == {"input"}

children(doc, el) == {k \in 1..Len(doc) : doc[k].parent = el}

\* el.textContent: the node's own text followed by its descendants' text
RECURSIVE textContent(_, _)
textContent(doc, el) ==
  IF tagName(doc[el]) \in VoidTags THEN ""
  ELSE LET RECURSIVE below(_)
           below(k) ==
             IF k > Len(doc) THEN ""
             ELSE (IF doc[k].parent = el THEN textContent(doc, k) ELSE "")
                  \o below(k + 1)
       IN doc[el].text \o below(el + 1)

\* the selector types, in the order of the list
interactiveSelectors ==
  <<[attr |-> "tag", value |-> "button"],
    [attr |-> "tag", value |-> "a"],
    [attr |-> "tag", value |-> "input"],
    [attr |-> "tag", value |-> "textarea"],
    [attr |-> "tag", value |-> "select"],
    [attr |-> "role", value |-> "button"],
    [attr |-> "role", value |-> "link"],
    [attr |-> "role", value |-> "textbox"],
    [attr |-> "role", value |-> "menuitem"],
    [attr |-> "role", value |-> "tab"],
    [attr |-> "role", value |-> "option"],
    [attr |-> "role", value |-> "switch"],
    [attr |-> "role", value |-> "checkbox"],
    [attr |-> "contenteditable", value |-> "true"],
    [attr |-> "onclick", value |-> Null],
    [attr |-> "data-testid", value |-> Null]>>

\* element.matches(selectorType)
matches(n, selectorType) ==
  CASE selectorType.attr = "tag" -> tagName(n) = selectorType.value
    [] selectorType.attr = "role" -> n.role = selectorType.value
    [] selectorType.attr = "contenteditable" ->
         n.contentEditable = selectorType.value
    [] selectorType.attr = "onclick" -> n.onclick
    [] selectorType.attr = "data-testid" -> n.testId # Null

\* document.querySelectorAll(selectorType): the matches in document order
querySelectorAll(doc, selectorType) ==
  LET f[k \in 0..Len(doc)] ==
        IF k = 0 THEN <<>>
        ELSE IF matches(doc[k], selectorType) THEN Append(f[k - 1], k)
        ELSE f[k - 1]
  IN f[Len(doc)]

\* document.querySelectorAll('div, span')
allElements(doc) ==
  LET f[k \in 0..Len(doc)] ==
        IF k = 0 THEN <<>>
        ELSE IF tagName(doc[k]) \in {"div", "span"} THEN Append(f[k - 1], k)
        ELSE f[k - 1]
  IN f[Len(doc)]

\* -------------------------------- extractInteractiveElements (per element)
LandmarkAt(n) ==
  LET tag == tagName(n)
      role == n.role
      id == toLowerCase(n.id)
      className == toLowerCase(n.className)
  IN CASE tag = "header" \/ role = "banner" \/ includes(id, "header")
            \/ includes(className, "header") -> "header"
       [] tag = "nav" \/ role = "navigation" \/ includes(id, "nav")
            \/ includes(className, "nav") -> "nav"
       [] tag = "aside" \/ role = "complementary" \/ includes(id, "sidebar")
            \/ includes(className, "sidebar") -> "sidebar"
       [] tag = "footer" \/ role = "contentinfo" \/ includes(id, "footer")
            \/ includes(className, "footer") -> "footer"
       [] tag = "main" \/ role = "main" \/ includes(id, "main")
            \/ includes(className, "main-content") -> "main"
       [] OTHER -> Null

RECURSIVE detectRegionFrom(_, _)
detectRegionFrom(doc, current) ==
  IF current = 0 THEN "main"
  ELSE IF LandmarkAt(doc[current]) # Null THEN LandmarkAt(doc[current])
  ELSE detectRegionFrom(doc, doc[current].parent)

\* variant: the walk starts at the parent
detectRegion_skipsSelf(doc, el) == detectRegionFrom(doc, doc[el].parent)

detectRegion(doc, el) == detectRegionFrom(doc, el)

RECURSIVE calculateDepth(_, _)
calculateDepth(doc, el) ==
  IF doc[el].parent = 0 THEN 0 ELSE 1 + calculateDepth(doc, doc[el].parent)

\* the element of a map entry, as a set
Elements(map) == {map[k].element : k \in 1..Len(map)}

\* elementToDataMap.get(el)
MapGet(map, el) ==
  map[CHOOSE k \in 1..Len(map) : map[k].element = el]

\* the selector of the nearest ancestor that has an entry in the map
RECURSIVE findInteractiveParentFrom(_, _, _)
findInteractiveParentFrom(doc, current, map) ==
  IF current = 0 THEN Undef
  ELSE IF current \in Elements(map) THEN MapGet(map, current).selector
  ELSE findInteractiveParentFrom(doc, doc[current].parent, map)

findInteractiveParent(doc, el, map) ==
  findInteractiveParentFrom(doc, doc[el].parent, map)

TextTags == {"button", "a", "div", "span"}
SelectorRoles == {"button", "link", "textbox", "checkbox", "radio"}

\* variant: the label is tested before the test id
generateSelector_labelFirst(doc, el) ==
  LET n == doc[el]
      tag == tagName(n)
      ariaRole == n.role
      ariaLabel == n.ariaLabel
      placeholder == placeholderOf(n)
      testId == n.testId
      contentEditable == contentEditableOf(n)
      name == nameOf(n)
      text == slice(trim(textContent(doc, el)), 100)
  IN
  IF Truthy(ariaLabel) THEN
    IF Truthy(ariaRole)
      THEN tag \o "[aria-label=\"" \o ariaLabel \o "\"]"
      ELSE "[aria-label=\"" \o ariaLabel \o "\"]"
  ELSE IF Truthy(testId) THEN "[data-testid=\"" \o testId \o "\"]"
  ELSE IF Truthy(placeholder) /\ tag \in {"input", "textarea"} THEN
    tag \o "[placeholder=\"" \o placeholder \o "\"]"
  ELSE IF /\ text # "" /\ Len(text) > 0 /\ Len(text) <= 50
          /\ (tag \in TextTags \/ ariaRole \in {"button", "link"}) THEN
    tag \o ":has-text(\"" \o escapeQuotes(text) \o "\")"
  ELSE IF contentEditable THEN tag \o "[contenteditable=\"true\"]"
  ELSE IF Truthy(ariaRole) /\ ariaRole \in SelectorRoles THEN
    tag \o "[role=\"" \o ariaRole \o "\"]"
  ELSE IF Truthy(name) THEN tag \o "[name=\"" \o name \o "\"]"
  ELSE IF n.id # "" THEN tag \o "[id=\"" \o n.id \o "\"]"
  ELSE IF n.className # "" /\ classes(n.className) # "" THEN
    tag \o "." \o classes(n.className)
  ELSE tag

generateSelector(doc, el) ==
  LET n == doc[el]
      tag == tagName(n)
      ariaRole == n.role
      ariaLabel == n.ariaLabel
      placeholder == placeholderOf(n)
      testId == n.testId
      contentEditable == contentEditableOf(n)
      name == nameOf(n)
      text == slice(trim(textContent(doc, el)), 100)
  IN
  IF Truthy(testId) THEN "[data-testid=\"" \o testId \o "\"]"
  ELSE IF Truthy(ariaLabel) THEN
    IF Truthy(ariaRole)
      THEN tag \o "[aria-label=\"" \o ariaLabel \o "\"]"
      ELSE "[aria-label=\"" \o ariaLabel \o "\"]"
  ELSE IF Truthy(placeholder) /\ tag \in {"input", "textarea"} THEN
    tag \o "[placeholder=\"" \o placeholder \o "\"]"
  ELSE IF /\ text # "" /\ Len(text) > 0 /\ Len(text) <= 50
          /\ (tag \in TextTags \/ ariaRole \in {"button", "link"}) THEN
    tag \o ":has-text(\"" \o escapeQuotes(text) \o "\")"
  ELSE IF contentEditable THEN tag \o "[contenteditable=\"true\"]"
  ELSE IF Truthy(ariaRole) /\ ariaRole \in SelectorRoles THEN
    tag \o "[role=\"" \o ariaRole \o "\"]"
  ELSE IF Truthy(name) THEN tag \o "[name=\"" \o name \o "\"]"
  ELSE IF n.id # "" THEN tag \o "[id=\"" \o n.id \o "\"]"
  ELSE IF n.className # "" /\ classes(n.className) # "" THEN
    tag \o "." \o classes(n.className)
  ELSE tag

\* variant: display: none is not tested
isVisible_ignoresDisplay(n) ==
  /\ n.rect.width > 0
  /\ n.rect.height > 0
  /\ n.visibility # "hidden"
  /\ n.opacity # "0"
  /\ n.pointerEvents # "none"

isVisible(n) ==
  /\ n.rect.width > 0
  /\ n.rect.height > 0
  /\ n.visibility # "hidden"
  /\ n.display # "none"
  /\ n.opacity # "0"
  /\ n.pointerEvents # "none"

TextboxTypes == {"text", "email", "password", "search", "tel", "url"}

\* the role recorded for a node: `let role = ariaRole || tagName` and the
\* branches that reassign it
inferRole(n) ==
  LET tag == tagName(n)
      ariaRole == n.role
      type == typeOf(n)
      role == IF Truthy(ariaRole) THEN ariaRole ELSE tag
  IN IF tag = "input" /\ Truthy(type) THEN
       (IF type \in TextboxTypes THEN "textbox" ELSE type)
     ELSE IF tag = "textarea" THEN "textbox"
     ELSE IF contentEditableOf(n) THEN "textbox"
     ELSE IF tag \in {"div", "span"} /\ n.cursor = "pointer" THEN "button"
     ELSE role

\* the ElementData built by processElement for a visible node
ElementData(doc, el) ==
  LET n == doc[el] IN
    [element |-> el,
     selector |-> generateSelector(doc, el),
     text |-> slice(trim(textContent(doc, el)), 100),
     role |-> inferRole(n),
     isVisible |-> isVisible(n),
     boundingBox |-> n.rect,
     ariaLabel |-> OrUndefined(n.ariaLabel),
     placeholder |-> OrUndefined(placeholderOf(n)),
     name |-> OrUndefined(nameOf(n)),
     type |-> OrUndefined(typeOf(n)),
     region |-> detectRegion(doc, el),
     parentSelector |-> Undef,
     depth |-> calculateDepth(doc, el)]

\* st = [seen |-> seenElements, map |-> elementToDataMap]
processElement(doc, el, st) ==
  IF el \in st.seen THEN st
  ELSE IF ~isVisible(doc[el]) THEN [st EXCEPT !.seen = @ \cup {el}]
  ELSE [seen |-> st.seen \cup {el},
        map |-> Append(st.map, ElementData(doc, el))]

\* elements.forEach(el => processElement(el))
RECURSIVE processEach(_, _, _)
processEach(doc, els, st) ==
  IF els = <<>> THEN st
  ELSE processEach(doc, Tail(els), processElement(doc, Head(els), st))

\* interactiveSelectors.forEach(...)
RECURSIVE criteriaPass(_, _, _)
criteriaPass(doc, selectorTypes, st) ==
  IF selectorTypes = <<>> THEN st
  ELSE criteriaPass(doc, Tail(selectorTypes),
                    processEach(doc, querySelectorAll(doc, Head(selectorTypes)),
                                st))

\* isClickable && isReasonableSize && hasText
looksClickable(doc, el) ==
  LET n == doc[el]
      text == trim(textContent(doc, el))
  IN /\ n.cursor = "pointer"
     /\ n.rect.width > 20 /\ n.rect.width < 500
     /\ n.rect.height > 20 /\ n.rect.height < 200
     /\ Len(text) > 0 /\ Len(text) < 100

\* allElements.forEach(...)
RECURSIVE pointerPass(_, _, _)
pointerPass(doc, els, st) ==
  IF els = <<>> THEN st
  ELSE LET el == Head(els) IN
    pointerPass(doc, Tail(els),
                IF el \notin st.seen /\ looksClickable(doc, el)
                  THEN processElement(doc, el, st)
                  ELSE st)

\* elementToDataMap.forEach(data => data.parentSelector = ...)
linkParents(doc, map) ==
  [k \in 1..Len(map) |->
     [map[k] EXCEPT
        !.parentSelector = findInteractiveParent(doc, map[k].element, map)]]

\* variant: a later entry replaces the value stored for its selector
dedup_keepsLast(map) ==
  LET f[k \in 0..Len(map)] ==
        IF k = 0 THEN <<>>
        ELSE LET acc == f[k - 1]
                 hits == {j \in 1..Len(acc) : acc[j].selector = map[k].selector}
             IN IF hits = {} THEN Append(acc, map[k])
                ELSE [j \in 1..Len(acc) |->
                        IF j \in hits THEN map[k] ELSE acc[j]]
  IN f[Len(map)]

\* selectorToElement: the first entry of each selector, in insertion order
dedup(map) ==
  LET f[k \in 0..Len(map)] ==
        IF k = 0 THEN <<>>
        ELSE LET acc == f[k - 1]
                 hits == {j \in 1..Len(acc) : acc[j].selector = map[k].selector}
             IN IF hits = {} THEN Append(acc, map[k]) ELSE acc
  IN f[Len(map)]

\* the object returned for one entry (no element reference)
toResult(data) ==
  [selector |-> data.selector, text |-> data.text, role |-> data.role,
   isVisible |-> data.isVisible, boundingBox |-> data.boundingBox,
   ariaLabel |-> data.ariaLabel, placeholder |-> data.placeholder,
   name |-> data.name, type |-> data.type, region |-> data.region,
   parentSelector |-> data.parentSelector, depth |-> data.depth]

\* ------------------------------------------ documents the page can hold
T50 == "Save the workflow abcdefghijabcdefghijabcdefghijab"
T51 == "Save the workflow abcdefghijabcdefghijabcdefghijabc"
T99 == "Save the workflow abcdefghijabcdefghijabcdefghijabcdefghijabcdefghijabcdefghijabcdefghijabcdefghija"
T100 == "Save the workflow abcdefghijabcdefghijabcdefghijabcdefghijabcdefghijabcdefghijabcdefghijabcdefghijab"

\* single elements over the attributes generateSelector and the role
\* inference read
AttributeNodes ==
  {[PlainNode(tag) EXCEPT !.role = role, !.testId = testId,
                          !.ariaLabel = ariaLabel,
                          !.placeholder = placeholder, !.text = text,
                          !.contentEditable = contentEditable,
                          !.name = name, !.id = id, !.className = className,
                          !.cursor = cursor] :
     tag \in {"button", "a", "input", "textarea", "select", "div", "span"},
     role \in {Null, "button", "tab"},
     testId \in {Null, "", "t"},
     ariaLabel \in {Null, "L"},
     placeholder \in {Null, "p"},
     text \in {"", "Save", T51},
     contentEditable \in {Null, "true"},
     name \in {Null, "n"},
     id \in {"", "i"},
     className \in {"", "btn 9x primary lg"},
     cursor \in {"auto", "pointer"}}

\* rectangles and computed styles an element can have
Styled(n, w, h, visibility, display, opacity, pointerEvents) ==
  [n EXCEPT !.rect = [x |-> 10, y |-> 20, width |-> w, height |-> h],
            !.visibility = visibility, !.display = display,
            !.opacity = opacity, !.pointerEvents = pointerEvents]

StyleNodes ==
  LET bases ==
        {[PlainNode("button") EXCEPT !.text = "Save"],
         [PlainNode("input") EXCEPT !.type = "checkbox", !.role = "switch"],
         [PlainNode("input") EXCEPT !.type = "email", !.placeholder = "p"],
         [PlainNode("div") EXCEPT !.onclick = TRUE, !.text = " Say \"hi\" "],
         [PlainNode("div") EXCEPT !.cursor = "pointer", !.text = "Save"],
         [PlainNode("span") EXCEPT !.cursor = "pointer", !.text = T50],
         [PlainNode("span") EXCEPT !.cursor = "pointer", !.text = T99,
                                   !.className = "9x  row"],
         [PlainNode("div") EXCEPT !.cursor = "pointer", !.text = T100],
         [PlainNode("DIV") EXCEPT !.testId = "t", !.id = "Main-Nav"]}
  IN {Styled(n, w, h, visibility, display, opacity, pointerEvents) :
        n \in bases, w \in {0, 20, 40, 500}, h \in {0, 24, 200},
        visibility \in {"visible", "hidden"}, display \in {"block", "none"},
        opacity \in {"1", "0"}, pointerEvents \in {"auto", "none"}}

\* elements that nest and repeat in the documents of several nodes
TreeNodes ==
  {[PlainNode("div") EXCEPT !.testId = "t"],
   [PlainNode("button") EXCEPT !.testId = "t", !.text = "Save"],
   [PlainNode("button") EXCEPT !.text = "Save"],
   [PlainNode("div") EXCEPT !.cursor = "pointer", !.text = "Save"],
   [PlainNode("div") EXCEPT !.onclick = TRUE, !.text = "Save"],
   [PlainNode("button") EXCEPT !.text = "Save", !.display = "none"],
   [PlainNode("input") EXCEPT !.placeholder = "p",
                              !.rect = [x |-> 10, y |-> 20, width |-> 0,
                                        height |-> 24]]}

ContainerTags == {"div", "span", "button", "a", "header", "nav", "aside",
                  "footer", "main"}

\* containers with and without a landmark signature
LandmarkNodes ==
  {PlainNode("div"),
   PlainNode("header"),
   [PlainNode("div") EXCEPT !.className = "site-Header dark"],
   PlainNode("nav"),
   [PlainNode("div") EXCEPT !.id = "header-nav"],
   PlainNode("aside"),
   [PlainNode("div") EXCEPT !.className = "left sidebar"],
   [PlainNode("div") EXCEPT !.role = "contentinfo"],
   PlainNode("main"),
   [PlainNode("div") EXCEPT !.id = "mainframe"],
   [PlainNode("div") EXCEPT !.className = "main-content"],
   [PlainNode("div") EXCEPT !.className = "main wide"]}

\* the extracted elements put inside them
LandmarkLeaves ==
  {[PlainNode("button") EXCEPT !.text = "Save"],
   [PlainNode("button") EXCEPT !.text = "Save", !.id = "footer-save"]}

\* a chain of containers around one extracted element
RegionDocuments ==
  UNION {
    {[k \in 1..n |->
        [(IF k = n THEN leaf ELSE outer[k]) EXCEPT !.parent = k - 1]] :
       outer \in [1..(n - 1) -> LandmarkNodes], leaf \in LandmarkLeaves} :
    n \in 2..MaxNodes}

RECURSIVE AncestorsOrSelf(_, _)
AncestorsOrSelf(doc, el) ==
  IF el = 0 THEN {} ELSE {el} \cup AncestorsOrSelf(doc, doc[el].parent)

RECURSIVE ChainOf(_, _)
ChainOf(parents, el) ==
  IF el = 0 THEN {} ELSE {el} \cup ChainOf(parents, parents[el])

\* the trees of n elements: document order is the preorder of the tree, so
\* an element's parent is the element before it or one of that one's ancestors
ParentVectors(n) ==
  {parents \in [1..n -> 0..(n - 1)] :
     \A k \in 1..n :
       /\ parents[k] < k
       /\ parents[k] # 0 => parents[k] \in ChainOf(parents, k - 1)}

\* only a rendered container element has element children
WellFormed(doc) ==
  \A k \in 1..Len(doc) :
    LET p == doc[k].parent IN
      /\ p < k
      /\ p # 0 =>
           /\ p \in AncestorsOrSelf(doc, k - 1)
           /\ tagName(doc[p]) \in ContainerTags
           /\ doc[p].display # "none"

TreeDocuments ==
  UNION {
    {doc \in {[k \in 1..n |-> [nodes[k] EXCEPT !.parent = parents[k]]] :
                nodes \in [1..n -> TreeNodes],
                parents \in ParentVectors(n)} : WellFormed(doc)} :
    n \in 2..MaxNodes}

Documents ==
  {<<n>> : n \in AttributeNodes \cup StyleNodes} \cup TreeDocuments
    \cup RegionDocuments


\* -------------------------------------- extractInteractiveElements (steps)
\* the loop's pre-action observation evaluates the extraction in the page
ExtractInit ==
  /\ AgentInFirstCycle("capturePageState", {"capturePageState"},
                       NoDecision, 0)
  /\ ClickIdle
  /\ DecideIdle
  /\ extractPc = "criteria"
  /\ document \in Documents
  /\ seenElements = {}
  /\ elementToDataMap = <<>>
  /\ selectorToElement = <<>>
  /\ results = <<>>

\* part_003:390-395 every selector type in order, its matches in document order
ExtractCriteria ==
  /\ extractPc = "criteria"
  /\ LET st == criteriaPass(document, interactiveSelectors,
                            [seen |-> seenElements, map |-> elementToDataMap])
     IN /\ seenElements' = st.seen
        /\ elementToDataMap' = st.map
  /\ extractPc' = "pointer"
  /\ UNCHANGED <<pc, inflight, error, maxSteps, steps, warned, completed,
                 initialUrl, endState, pageState, history, decision,
                 stepNumber, executedAction, postActionState, acquired,
                 closed, pageUrl, screenshots, uiStates, elementsFiles,
                 summary, errorShot, outcome, cycles, sawCompleting,
                 recordedCompleting, nextActionCalls, preObs, postObs,
                 stepObs, cycleStartLen, cycleMutations, opAfterClose,
                 clickVars, document, selectorToElement, results, decideVars>>

\* part_003:397-413 the div/span elements not seen yet that look clickable
ExtractPointer ==
  /\ extractPc = "pointer"
  /\ LET st == pointerPass(document, allElements(document),
                           [seen |-> seenElements, map |-> elementToDataMap])
     IN /\ seenElements' = st.seen
        /\ elementToDataMap' = st.map
  /\ extractPc' = "link"
  /\ UNCHANGED <<pc, inflight, error, maxSteps, steps, warned, completed,
                 initialUrl, endState, pageState, history, decision,
                 stepNumber, executedAction, postActionState, acquired,
                 closed, pageUrl, screenshots, uiStates, elementsFiles,
                 summary, errorShot, outcome, cycles, sawCompleting,
                 recordedCompleting, nextActionCalls, preObs, postObs,
                 stepObs, cycleStartLen, cycleMutations, opAfterClose,
                 clickVars, document, selectorToElement, results, decideVars>>

\* part_003:415-417 every entry gets the selector of its nearest extracted ancestor
ExtractLinkParents ==
  /\ extractPc = "link"
  /\ elementToDataMap' = linkParents(document, elementToDataMap)
  /\ extractPc' = "dedup"
  /\ UNCHANGED <<pc, inflight, error, maxSteps, steps, warned, completed,
                 initialUrl, endState, pageState, history, decision,
                 stepNumber, executedAction, postActionState, acquired,
                 closed, pageUrl, screenshots, uiStates, elementsFiles,
                 summary, errorShot, outcome, cycles, sawCompleting,
                 recordedCompleting, nextActionCalls, preObs, postObs,
                 stepObs, cycleStartLen, cycleMutations, opAfterClose,
                 clickVars, document, seenElements, selectorToElement,
                 results, decideVars>>

\* part_003:419-443 one entry per selector, returned without the element
ExtractDedup ==
  /\ extractPc = "dedup"
  /\ selectorToElement' = dedup(elementToDataMap)
  /\ results' = [k \in 1..Len(dedup(elementToDataMap)) |->
                   toResult(dedup(elementToDataMap)[k])]
  /\ extractPc' = "done"
  /\ UNCHANGED <<pc, inflight, error, maxSteps, steps, warned, completed,
                 initialUrl, endState, pageState, history, decision,
                 stepNumber, executedAction, postActionState, acquired,
                 closed, pageUrl, screenshots, uiStates, elementsFiles,
                 summary, errorShot, outcome, cycles, sawCompleting,
                 recordedCompleting, nextActionCalls, preObs, postObs,
                 stepObs, cycleStartLen, cycleMutations, opAfterClose,
                 clickVars, document, seenElements, elementToDataMap,
                 decideVars>>

ExtractNext ==
  \/ ExtractCriteria
  \/ ExtractPointer
  \/ ExtractLinkParents
  \/ ExtractDedup

\* one evaluation of extractInteractiveElements on one document
ExtractSpec == ExtractInit /\ [][ExtractNext]_vars

\* ---------------------------- LLMService.determineNextAction (steps)
\* the agent awaits determineNextAction in its first cycle
DecideInit ==
  /\ AgentInFirstCycle("determineNextAction", {"determineNextAction"},
                       NoDecision, 0)
  /\ ClickIdle
  /\ ExtractIdle
  /\ decidePc = "call"
  /\ apiCalls = 0
  /\ content = NoDecision

\* llm-service.ts:17-41 the prompts are built and chat.completions.create is called
DecideCreate ==
  /\ decidePc = "call"
  /\ apiCalls' = apiCalls + 1
  /\ decidePc' = "create"
  /\ UNCHANGED <<pc, inflight, error, maxSteps, steps, warned, completed,
                 initialUrl, endState, pageState, history, decision,
                 stepNumber, executedAction, postActionState, acquired,
                 closed, pageUrl, screenshots, uiStates, elementsFiles,
                 summary, errorShot, outcome, cycles, sawCompleting,
                 recordedCompleting, nextActionCalls, preObs, postObs,
                 stepObs, cycleStartLen, cycleMutations, opAfterClose,
                 clickVars, extractVars, content>>

\* llm-service.ts:22 the awaited create rejects with a rate-limit error: nothing catches it, determineNextAction rejects and the agent resumes in its handler
DecideRateLimited ==
  /\ decidePc = "create"
  /\ decidePc' = "failed"
  /\ inflight' = inflight \ {"determineNextAction"}
  /\ error' = "RateLimited"
  /\ pc' = Handler(pc)
  /\ UNCHANGED <<maxSteps, steps, warned, completed, initialUrl, endState,
                 pageState, history, decision, stepNumber, executedAction,
                 postActionState, acquired, closed, pageUrl, screenshots,
                 uiStates, elementsFiles, summary, errorShot, outcome,
                 cycles, sawCompleting, recordedCompleting, nextActionCalls,
                 preObs, postObs, stepObs, cycleStartLen, cycleMutations,
                 opAfterClose, clickVars, extractVars, apiCalls, content>>

\* llm-service.ts:22-43 create resolves; content is the message content, possibly empty
DecideReply ==
  /\ decidePc = "create"
  /\ content' \in Decisions \cup {NoDecision}
  /\ decidePc' = "reply"
  /\ UNCHANGED <<pc, inflight, error, maxSteps, steps, warned, completed,
                 initialUrl, endState, pageState, history, decision,
                 stepNumber, executedAction, postActionState, acquired,
                 closed, pageUrl, screenshots, uiStates, elementsFiles,
                 summary, errorShot, outcome, cycles, sawCompleting,
                 recordedCompleting, nextActionCalls, preObs, postObs,
                 stepObs, cycleStartLen, cycleMutations, opAfterClose,
                 clickVars, extractVars, apiCalls>>

\* llm-service.ts:44-46 an empty content raises 'No response from LLM'
DecideNoContent ==
  /\ decidePc = "reply"
  /\ content = NoDecision
  /\ decidePc' = "failed"
  /\ inflight' = inflight \ {"determineNextAction"}
  /\ error' = "NoResponse"
  /\ pc' = Handler(pc)
  /\ UNCHANGED <<maxSteps, steps, warned, completed, initialUrl, endState,
                 pageState, history, decision, stepNumber, executedAction,
                 postActionState, acquired, closed, pageUrl, screenshots,
                 uiStates, elementsFiles, summary, errorShot, outcome,
                 cycles, sawCompleting, recordedCompleting, nextActionCalls,
                 preObs, postObs, stepObs, cycleStartLen, cycleMutations,
                 opAfterClose, clickVars, extractVars, apiCalls, content>>

\* llm-service.ts:48, agent.ts:125-132 the parsed content is returned and becomes the cycle's decision
DecideReturn ==
  /\ decidePc = "reply"
  /\ content # NoDecision
  /\ decidePc' = "returned"
  /\ inflight' = inflight \ {"determineNextAction"}
  /\ decision' = content
  /\ sawCompleting' =
       (sawCompleting \/ content.completed \/ content.action = "complete")
  /\ pc' = Succ(pc)
  /\ UNCHANGED <<error, maxSteps, steps, warned, completed, initialUrl,
                 endState, pageState, history, stepNumber, executedAction,
                 postActionState, acquired, closed, pageUrl, screenshots,
                 uiStates, elementsFiles, summary, errorShot, outcome,
                 cycles, recordedCompleting, nextActionCalls, preObs,
                 postObs, stepObs, cycleStartLen, cycleMutations,
                 opAfterClose, clickVars, extractVars, apiCalls, content>>

DecideNext ==
  \/ DecideCreate
  \/ DecideRateLimited
  \/ DecideReply
  \/ DecideNoContent
  \/ DecideReturn

\* one call of determineNextAction, from the request to the agent's resumption
DecideSpec == DecideInit /\ [][DecideNext]_vars

\* ------------------------------------------------------------- properties
\* positions of one loop cycle: observation, decision, action, recording
CycleLocs ==
  {"capturePageState", "determineNextAction", "dispatch", "click", "type",
   "saveScreenshot", "post_capturePageState", "writeUiState", "saveElements",
   "addStep"}

\* execute has settled without an error and no decision was a completing one
RanOutQuietly == pc = "done" /\ error = None /\ ~sawCompleting

\* C1 as stated: a run whose decisions never complete and in which nothing
\* raises performs exactly maxSteps cycles, ends exhausted, and its summary
\* has totalSteps = maxSteps + 1.
C1_Original ==
  RanOutQuietly =>
    /\ outcome = "Exhausted"
    /\ cycles = maxSteps
    /\ summary # NoSummary
    /\ summary.totalSteps = maxSteps + 1

\* C1 amended: such a run ends exhausted after exactly max(0, maxSteps - 1)
\* cycles and its summary has totalSteps = max(1, maxSteps): step 0 counts
\* against the budget.  The counts hold whenever the loop ends exhausted.
C1_LoopTermination ==
  /\ RanOutQuietly => outcome = "Exhausted" /\ summary # NoSummary
  /\ outcome = "Exhausted" =>
       /\ cycles = Max(0, maxSteps - 1)
       /\ Len(steps) = Max(1, maxSteps)
       /\ summary # NoSummary => summary.totalSteps = Max(1, maxSteps)

C1_Witness ==
  /\ RanOutQuietly
  /\ maxSteps = 3
  /\ cycles = 2
  /\ summary # NoSummary
  /\ summary.totalSteps = 3

\* C2: the loop ends Completed exactly when the step of a decision with
\* completed = true or action `complete` was recorded; once it is recorded no
\* observation, decision or action of a further cycle is started.
C2_CompletedIffCompletingDecision ==
  /\ recordedCompleting => pc \notin CycleLocs /\ inflight \cap CycleLocs = {}
  /\ recordedCompleting => nextActionCalls = cycles
  /\ outcome = "Completed" => recordedCompleting /\ completed
  /\ outcome = "Exhausted" => ~recordedCompleting /\ ~completed

C2_Witness ==
  /\ outcome = "Completed"
  /\ pc = "done"
  /\ Len(steps) = 2
  /\ maxSteps = 3
  /\ steps[2].action.type = "click"

\* C3: exhaustion is not an error: when the loop stops on the step budget the
\* warning is logged and no error is raised by it, the summary export is the
\* next thing done, and the session is only closed after it (the summary is
\* missing at close only if writing it failed).
C3_ExhaustionNonFatal ==
  /\ outcome = "Exhausted" => warned
  /\ warned => outcome = "Exhausted" /\ Len(steps) >= maxSteps
  /\ pc = "exportSummary" => error = None /\ summary = NoSummary /\ ~closed
  /\ (closed /\ outcome = "Exhausted" /\ error = None) =>
       summary # NoSummary /\ summary.totalSteps = Len(steps)
  /\ (closed /\ outcome = "Exhausted" /\ summary = NoSummary) =>
       error \in {"IOError", "BrowserError"}

C3_Witness ==
  /\ closed
  /\ outcome = "Exhausted"
  /\ warned
  /\ error = None
  /\ summary # NoSummary
  /\ maxSteps = 2

\* C4: once the session is acquired it is eventually closed on every path,
\* and no page operation is issued after close() returned: at that point
\* execute has nothing in flight and is at its end.
C4_SessionReleased ==
  /\ acquired ~> closed
  /\ [](~opAfterClose)
  /\ [](closed => pc = "done" /\ inflight = {})

\* C5 as stated: whenever execute has terminated with the session acquired,
\* the summary of the recorded history has been exported.
C5_Original ==
  (pc = "done" /\ acquired) =>
    summary # NoSummary /\ summary.totalSteps = Len(steps)

\* C5 amended: the summary is exported only after the loop has returned
\* (Completed or Exhausted), it is then the summary of the whole history, and
\* every run that ends without an error has it; a run aborted in bootstrap or
\* in the loop ends without a summary.
C5_SummaryOnlyAfterLoopReturn ==
  /\ summary # NoSummary =>
       /\ outcome # None
       /\ summary.totalSteps = Len(steps)
       /\ \A i \in 1..Len(steps) :
            /\ summary.steps[i].stepNumber = i - 1
            /\ summary.steps[i].action = steps[i].action.type
  /\ (pc = "done" /\ error = None) => summary # NoSummary
  /\ (pc = "done" /\ outcome = None) => summary = NoSummary /\ error # None

C5_Witness ==
  /\ pc = "done"
  /\ closed
  /\ error = "ElementNotFound"
  /\ errorShot
  /\ Len(steps) = 2
  /\ summary = NoSummary

\* C6: a decision whose action kind is outside {click, type, navigate,
\* complete} aborts the run with the unknown-action error; no click, fill or
\* navigation was issued in that cycle and no step was appended for it.
C6_UnknownActionAborts ==
  /\ error = "UnknownActionType" =>
       /\ decision.action \notin {"click", "type", "navigate", "complete"}
       /\ cycleMutations = 0
       /\ Len(steps) = cycleStartLen
       /\ pc \in {"catch_saveScreenshot", "finally_close", "done"}
  /\ (pc \in CycleLocs \ {"capturePageState", "determineNextAction",
                          "dispatch"}) =>
       decision.action \in {"click", "type", "navigate", "complete"}

C6_Witness ==
  /\ error = "UnknownActionType"
  /\ pc = "done"
  /\ Len(steps) = 2
  /\ steps[2].action.type = "click"

\* C7: whenever the history is non-empty its first step is the navigate step
\* with stepNumber 0 and reasoning "Initial page load", and no next-action
\* call is made to the decision engine before that step is appended.
C7_StepZeroIsInitialNavigation ==
  /\ Len(steps) > 0 =>
       /\ steps[1].stepNumber = 0
       /\ steps[1].action.type = "navigate"
       /\ steps[1].reasoning = "Initial page load"
  /\ nextActionCalls > 0 => Len(steps) > 0

C7_Witness ==
  /\ nextActionCalls = 2
  /\ Len(steps) = 2
  /\ steps[2].action.type = "type"

\* C8: the history is append-only and ordered: every step of the history
\* stays in place unchanged when the history changes, and the i-th step
\* (counting from 0) has stepNumber i.
C8_AppendOnlyOrdered ==
  /\ [](\A i \in 1..Len(steps) : steps[i].stepNumber = i - 1)
  /\ [][/\ Len(steps') >= Len(steps)
        /\ SubSeq(steps', 1, Len(steps)) = steps]_vars
  /\ [](history = SubSeq(steps, 1, Len(history)))

C8_Witness ==
  /\ Len(steps) = 3
  /\ Len(history) = 2
  /\ steps[3].stepNumber = 2

\* C9: at most one call is in flight at any time, and within a cycle the
\* pre-action observation has completed when the decision is requested, the
\* decision when the action is issued, the action and the post-action
\* observation when the step is recorded; when the observation of step N+1
\* begins, ui-state-N and elements-N are written for every recorded step.
C9_StrictlySequential ==
  /\ Cardinality(inflight) <= 1
  /\ inflight \subseteq {pc}
  /\ "determineNextAction" \in inflight => preObs = 1 /\ postObs = 0
  /\ pc \in {"click", "type"} =>
       /\ nextActionCalls = cycles + 1
       /\ preObs = 1
       /\ "determineNextAction" \notin inflight
  /\ pc = "addStep" =>
       /\ postObs = 1
       /\ stepNumber \in elementsFiles
       /\ \E u \in uiStates : u.stepNumber = stepNumber
  /\ (pc = "capturePageState") =>
       \A n \in 0..(Len(steps) - 1) :
         /\ n \in elementsFiles
         /\ \E u \in uiStates : u.stepNumber = n

C9_Witness ==
  /\ inflight = {"capturePageState"}
  /\ Len(steps) = 2
  /\ 1 \in elementsFiles

\* C10 as stated: every appended step, step 0 included, was produced with
\* exactly one pre-action and exactly one post-action observation.
C10_Original ==
  /\ Len(stepObs) = Len(steps)
  /\ \A i \in 1..Len(stepObs) : stepObs[i] = <<1, 1>>

\* C10 amended: every step appended by the loop (step number >= 1) was
\* produced with exactly one pre-action and exactly one post-action
\* observation; step 0 was produced with a single observation, taken after
\* the initial navigation, and no pre-action observation.
C10_OneObservationPairPerLoopStep ==
  /\ Len(stepObs) = Len(steps)
  /\ \A i \in 2..Len(stepObs) : stepObs[i] = <<1, 1>>
  /\ Len(stepObs) >= 1 => stepObs[1] = <<0, 1>>

C10_Witness ==
  /\ Len(stepObs) = 3
  /\ stepObs[2] = <<1, 1>>
  /\ stepObs[3] = <<1, 1>>

\* positions of a cycle after its action was carried out
RecordingLocs ==
  {"saveScreenshot", "post_capturePageState", "writeUiState", "saveElements",
   "addStep"}

\* C25: a navigate decision inside the loop issues no navigation, click or
\* fill: the page stays as the pre-action observation found it, and the step
\* recorded is a navigate action whose url is the URL of that observation.
C25_NavigateOnlyRecordsUrl ==
  /\ (pc \in RecordingLocs /\ decision.action = "navigate") =>
       /\ cycleMutations = 0
       /\ pageUrl = pageState.url
       /\ executedAction =
            ActionRec("navigate", Undef, Undef, Undef, pageState.url)
       /\ pc \in {"writeUiState", "saveElements", "addStep"} =>
            postActionState.url = pageState.url
  /\ (pc = "loop_test" /\ Len(steps) >= 2
        /\ steps[Len(steps)].action.type = "navigate") =>
       /\ cycleMutations = 0
       /\ steps[Len(steps)].action =
            ActionRec("navigate", Undef, Undef, Undef, pageState.url)

\* a click moved the page, and the navigate step after it records the new URL
C25_Witness ==
  /\ pc = "loop_test"
  /\ Len(steps) = 3
  /\ steps[2].action.type = "click"
  /\ steps[3].action.type = "navigate"
  /\ steps[3].action.url # steps[1].action.url
  /\ pageUrl = steps[3].action.url

\* the current cycle failed in Deciding or Acting: the decision engine raised,
\* the decision lacks a selector or text, its kind is unknown, or the element
\* was not found
FailedDecidingOrActing ==
  /\ error \in {"DecisionError", "ClickRequiresSelector",
                "TypeRequiresSelectorAndText", "UnknownActionType",
                "ElementNotFound"}
  /\ nextActionCalls > 0

\* C26: when a cycle fails in Deciding or Acting the history is exactly what
\* it was before the cycle began: no step was appended, and no ui-state-N or
\* elements-N file was written for the step number N of that cycle.
C26_FailedCycleLeavesHistory ==
  FailedDecidingOrActing =>
    /\ Len(steps) = cycleStartLen
    /\ steps = history
    /\ cycles = Len(steps) - 1
    /\ \A u \in uiStates : u.stepNumber < Len(steps)
    /\ \A n \in elementsFiles : n < Len(steps)
    /\ \A s \in screenshots : s[2] < Len(steps)

C26_Witness ==
  /\ error = "DecisionError"
  /\ pc = "catch_saveScreenshot"
  /\ nextActionCalls = 2
  /\ Len(steps) = 2
  /\ history = steps

\* C27: for every step appended by the loop, the number used for the cycle's
\* screenshot name, ui-state-N record and elements-N file is the stepNumber
\* addStep assigns; each number is written for exactly one step of the
\* history and no artifact of an earlier step is written again.
C27_ArtifactNumberIsStepNumber ==
  /\ pc \in RecordingLocs => stepNumber = Len(steps)
  /\ pc = "saveScreenshot" => \A s \in screenshots : s[2] # stepNumber
  /\ pc = "writeUiState" => \A u \in uiStates : u.stepNumber # stepNumber
  /\ pc = "saveElements" => stepNumber \notin elementsFiles
  /\ \A i \in 1..Len(steps) :
       /\ steps[i].screenshotPath[2] = steps[i].stepNumber
       /\ steps[i].screenshotPath \in screenshots
       /\ steps[i].stepNumber \in elementsFiles
       /\ \E u \in uiStates :
            /\ u.stepNumber = steps[i].stepNumber
            /\ u.action = steps[i].action
            /\ u.screenshotPath = steps[i].screenshotPath
  /\ \A u, v \in uiStates : u.stepNumber = v.stepNumber => u = v
  /\ \A s, t \in screenshots : s[2] = t[2] => s = t

C27_Witness ==
  /\ pc = "addStep"
  /\ stepNumber = 2
  /\ Len(steps) = 2
  /\ Cardinality(uiStates) = 3
  /\ elementsFiles = {0, 1, 2}

\* C30: in every reachable state the number of recorded steps is at most
\* max(1, maxSteps): a cycle is started only while the history is shorter
\* than maxSteps, a cycle appends at most one step, and step 0 is recorded
\* even when maxSteps is 0.
C30_StepBudget ==
  /\ Len(steps) <= Max(1, maxSteps)
  /\ pc \in CycleLocs => Len(steps) < maxSteps /\ Len(steps) = cycleStartLen
  /\ Len(steps) <= cycleStartLen + 1
  /\ (outcome # None \/ nextActionCalls > 0) => Len(steps) >= 1

C30_Witness ==
  /\ maxSteps = 0
  /\ outcome = "Exhausted"
  /\ Len(steps) = 1
  /\ nextActionCalls = 0

\* ------------------------------------------ properties of the click resolver
\* click has chosen its element and tested its box: the test failed or the
\* click point was computed
ClickResolved == clickError = "ElementNotFound" \/ coordinates # NoPoint

\* click has returned its point to the agent
ClickReturned == clickPc \in {"returned", "settled"}

\* several live matches, every one with a bounding box
SeveralBoxedMatches ==
  /\ Len(liveMatches) > 1
  /\ \A k \in 1..Len(liveMatches) : liveMatches[k] # NullBox

\* C11 as stated: with N > 1 boxed matches and a target box equal to the box
\* of node K, the click goes to node K, for every K.
C11_Original ==
  (ClickReturned /\ SeveralBoxedMatches) =>
    \A K \in 1..Len(liveMatches) :
      liveMatches[K] = targetBox => dispatchedTo = K

\* C11 amended: with N > 1 boxed matches and a target box equal to the box of
\* node K, the click goes to the first node in DOM order whose box equals the
\* target (distance 0); that is node K whenever no earlier match has the same
\* box, also when K is not the first match.
C11_ResolvesToFirstExactMatch ==
  (ClickReturned /\ SeveralBoxedMatches) =>
    \A K \in 1..Len(liveMatches) :
      (/\ liveMatches[K] = targetBox
       /\ \A J \in 1..(K - 1) : liveMatches[J] # targetBox) =>
        /\ dispatchedTo = K
        /\ smallestDifference = 0
        /\ clickBoundingBox = targetBox

C11_Witness ==
  /\ clickPc = "returned"
  /\ SeveralBoxedMatches
  /\ Len(liveMatches) = 3
  /\ dispatchedTo = 3
  /\ liveMatches[3] = targetBox

\* C12: with several matches and no target box, or no match with a box, the
\* element chosen is the first match in DOM order; with exactly one match that
\* node is chosen whatever the target box is.  A click, if one is dispatched,
\* goes to that node.
C12_FallbackToFirstMatch ==
  ClickResolved =>
    /\ (/\ Len(liveMatches) > 1
        /\ \/ targetBox = NullBox
           \/ \A k \in 1..Len(liveMatches) : liveMatches[k] = NullBox) =>
         /\ elementToClick = 1
         /\ clickBoundingBox = liveMatches[1]
         /\ dispatchedTo \in {NoElement, 1}
    /\ Len(liveMatches) = 1 =>
         /\ elementToClick = 1
         /\ clickBoundingBox = liveMatches[1]
         /\ dispatchedTo \in {NoElement, 1}

C12_Witness ==
  /\ clickPc = "returned"
  /\ Len(liveMatches) = 3
  /\ targetBox = NullBox
  /\ dispatchedTo = 1
  /\ liveMatches[2] # liveMatches[1]
  /\ liveMatches[2] # NullBox

\* C13: once click has chosen its node, it raises the element-not-found error
\* exactly when the selector matches no live node or the chosen node has no
\* bounding box; then no click was dispatched, no coordinates were returned
\* and no step is recorded.
C13_ElementNotFound ==
  /\ ClickResolved =>
       (clickError = "ElementNotFound" <=>
          (Len(liveMatches) = 0 \/ liveMatches[elementToClick] = NullBox))
  /\ clickError = "ElementNotFound" =>
       /\ clickPc \in {"failed", "rejected"}
       /\ dispatchedTo = NoElement
       /\ coordinates = NoPoint
       /\ Len(steps) = 1
  /\ (clickPc = "check" /\ clickBoundingBox = NullBox) =>
       Len(liveMatches) = 0 \/ liveMatches[elementToClick] = NullBox

C13_Witness ==
  /\ clickPc = "rejected"
  /\ error = "ElementNotFound"
  /\ pc = "done"
  /\ Len(liveMatches) = 2
  /\ liveMatches[1] = NullBox
  /\ liveMatches[2] # NullBox
  /\ targetBox = NullBox
  /\ dispatchedTo = NoElement

\* C14: a successful click returns the centre (x + width/2, y + height/2) of
\* the box of the node it clicked, and the step recorded for the cycle is a
\* click action with the decision's selector and exactly those coordinates;
\* the box {x:10, y:20, width:40, height:20} gives (30, 30).
C14_ClickPointIsCentre ==
  /\ ClickReturned =>
       LET b == liveMatches[dispatchedTo] IN
         /\ 2 * coordinates[1] = 2 * b.x + b.width
         /\ 2 * coordinates[2] = 2 * b.y + b.height
         /\ b = [x |-> 10, y |-> 20, width |-> 40, height |-> 20] =>
              coordinates = <<30, 30>>
  /\ clickPc = "settled" =>
       executedAction =
         ActionRec("click", decision.selector, coordinates, Undef, Undef)
  /\ \A u \in uiStates : u.stepNumber = 1 => u.action = executedAction
  /\ Len(steps) <= 2
  /\ Len(steps) = 2 =>
       /\ clickPc = "settled"
       /\ steps[2].stepNumber = 1
       /\ steps[2].action.type = "click"
       /\ steps[2].action.selector = decision.selector
       /\ steps[2].action.coordinates = coordinates

C14_Witness ==
  /\ clickPc = "settled"
  /\ pc = "loop_test"
  /\ Len(steps) = 2
  /\ dispatchedTo = 2
  /\ liveMatches[2] = [x |-> 10, y |-> 20, width |-> 40, height |-> 20]
  /\ steps[2].action.coordinates = <<30, 30>>
  /\ steps[2].action.selector = "#a"

\* C15: a `type` decision whose selector or text is missing or empty, and a
\* `click` decision whose selector is missing or empty, is rejected with an
\* error; browser.type / browser.click is not called for it (so nothing is
\* focused or filled) and no step is appended.
C15_MissingArgumentsRejected ==
  /\ error \in {"TypeRequiresSelectorAndText", "ClickRequiresSelector"} =>
       /\ cycleMutations = 0
       /\ Len(steps) = cycleStartLen
       /\ pc \in {"catch_saveScreenshot", "finally_close", "done"}
  /\ error = "TypeRequiresSelectorAndText" =>
       decision.action = "type"
         /\ (Falsy(decision.selector) \/ Falsy(decision.text))
  /\ error = "ClickRequiresSelector" =>
       decision.action = "click" /\ Falsy(decision.selector)
  /\ (pc \in CycleLocs \ {"capturePageState", "determineNextAction",
                          "dispatch"}) =>
       /\ decision.action = "type" =>
            decision.selector = "#a" /\ decision.text = "hi"
       /\ decision.action = "click" => decision.selector = "#a"

C15_Witness ==
  /\ error = "TypeRequiresSelectorAndText"
  /\ pc = "done"
  /\ decision.selector = "#a"
  /\ decision.text = ""
  /\ Len(steps) = 2

\* the matches that have a bounding box
BoxedMatches == {k \in 1..Len(liveMatches) : liveMatches[k] # NullBox}

\* no two boxed matches have the same box
DistinctBoxes ==
  \A j, k \in BoxedMatches : liveMatches[j] = liveMatches[k] => j = k

\* C28: the target geometry handed to click is the box of the entry of the
\* pre-action observation whose selector equals the decision's selector, and
\* none when there is no such entry; hence when the layout is unchanged (the
\* recorded node is among the matches, with the box recorded) and the boxed
\* matches have pairwise distinct boxes, the click goes to the recorded node.
C28_TargetIsObservedBox ==
  /\ clickPc # "call" =>
       /\ \A k \in 1..Len(observedElements) :
            observedElements[k].selector = decision.selector =>
              targetBox = observedElements[k].boundingBox
       /\ (\A k \in 1..Len(observedElements) :
             observedElements[k].selector # decision.selector) =>
            targetBox = NullBox
  /\ (ClickResolved /\ targetBox # NullBox /\ DistinctBoxes
        /\ \E K \in BoxedMatches : liveMatches[K] = targetBox) =>
       /\ clickError # "ElementNotFound"
       /\ liveMatches[elementToClick] = targetBox
       /\ dispatchedTo # NoElement => liveMatches[dispatchedTo] = targetBox

\* the recorded node is the last of three distinct matches
C28_Witness ==
  /\ clickPc = "returned"
  /\ Len(observedElements) = 2
  /\ Len(liveMatches) = 3
  /\ DistinctBoxes
  /\ BoxedMatches = {1, 2, 3}
  /\ liveMatches[3] = targetBox
  /\ dispatchedTo = 3

\* C29: with several matches and a target geometry, click chooses a boxed
\* match whose L1 distance to the target over x, y, width and height is
\* minimal among the boxed matches, the earliest in DOM order among equals;
\* a match without a box is never chosen by the geometry pass.
C29_NearestBoxedMatch ==
  /\ bestMatch # NoElement => bestMatch \in BoxedMatches
  /\ (ClickResolved /\ targetBox # NullBox /\ Len(liveMatches) > 1) =>
       IF BoxedMatches = {}
         THEN bestMatch = NoElement /\ clickError = "ElementNotFound"
         ELSE /\ elementToClick = bestMatch
              /\ \A k \in BoxedMatches :
                   LET chosen == BoxDiff(liveMatches[bestMatch], targetBox)
                       other == BoxDiff(liveMatches[k], targetBox)
                   IN /\ chosen <= other
                      /\ chosen = other => bestMatch <= k

\* no match has the target's box; the nearest one comes after an unboxed and
\* a farther one
C29_Witness ==
  /\ clickPc = "returned"
  /\ Len(liveMatches) = 3
  /\ liveMatches[1] = NullBox
  /\ BoxedMatches = {2, 3}
  /\ liveMatches[2] # targetBox
  /\ liveMatches[3] # targetBox
  /\ targetBox # NullBox
  /\ BoxDiff(liveMatches[3], targetBox) < BoxDiff(liveMatches[2], targetBox)
  /\ dispatchedTo = 3

\* ------------------------------------- properties of the element extraction
\* the entry of the map built for node el
EntryOf(el) == MapGet(elementToDataMap, el)

\* place of a node in the pass order: the first selector type it matches,
\* 17 for a node only the pointer-cursor pass can reach
FirstCriterion(n) ==
  LET hits == {c \in 1..Len(interactiveSelectors) :
                 matches(n, interactiveSelectors[c])}
  IN IF hits = {} THEN Len(interactiveSelectors) + 1
     ELSE CHOOSE c \in hits : \A h \in hits : c <= h

EncounteredBefore(doc, a, b) ==
  \/ FirstCriterion(doc[a]) < FirstCriterion(doc[b])
  \/ FirstCriterion(doc[a]) = FirstCriterion(doc[b]) /\ a < b

\* a visible node that a pass reaches
Captured(doc, el) ==
  /\ doc[el].rect.width > 0 /\ doc[el].rect.height > 0
  /\ doc[el].visibility # "hidden" /\ doc[el].display # "none"
  /\ doc[el].opacity # "0" /\ doc[el].pointerEvents # "none"
  /\ \/ FirstCriterion(doc[el]) <= Len(interactiveSelectors)
     \/ tagName(doc[el]) \in {"div", "span"} /\ looksClickable(doc, el)

\* C16: in the returned list no two entries share a selector, and for each
\* selector synthesized by a visible captured node the entry kept is the node
\* encountered first under the pass order (selector types in list order,
\* document order within one, then the pointer-cursor div/span pass).
C16_DedupKeepsFirstEncountered ==
  extractPc = "done" =>
    /\ Len(results) = Len(selectorToElement)
    /\ \A i, j \in 1..Len(results) :
         i # j => results[i].selector # results[j].selector
    /\ \A k \in 1..Len(results) :
         /\ results[k] = toResult(selectorToElement[k])
         /\ Captured(document, selectorToElement[k].element)
    /\ \A el \in 1..Len(document) :
         Captured(document, el) =>
           \E k \in 1..Len(results) :
             LET kept == selectorToElement[k].element IN
               /\ results[k].selector = generateSelector(document, el)
               /\ generateSelector(document, kept) = results[k].selector
               /\ kept = el \/ EncounteredBefore(document, kept, el)

C16_Witness ==
  /\ extractPc = "done"
  /\ Len(document) >= 2
  /\ Captured(document, 1)
  /\ FirstCriterion(document[1]) = Len(interactiveSelectors) + 1
  /\ generateSelector(document, 1) = generateSelector(document, 2)
  /\ Len(results) = 1
  /\ selectorToElement[1].element = 2

StartsWith(s, prefix) ==
  Len(s) >= Len(prefix) /\ SubSeq(s, 1, Len(prefix)) = prefix

\* which rule of the chain a selector string comes from
RuleOfSelector(s) ==
  CASE StartsWith(s, "[data-testid=") -> 1
    [] includes(s, "[aria-label=") -> 2
    [] includes(s, "[placeholder=") -> 3
    [] includes(s, ":has-text(") -> 4
    [] includes(s, "[contenteditable=") -> 5
    [] includes(s, "[role=") -> 6
    [] includes(s, "[name=") -> 7
    [] OTHER -> 8

\* the first rule of the chain whose condition the node meets
FirstApplicableRule(doc, el) ==
  LET n == doc[el]
      text == trim(textContent(doc, el))
  IN CASE Truthy(n.testId) -> 1
       [] Truthy(n.ariaLabel) -> 2
       [] tagName(n) \in {"input", "textarea"} /\ Truthy(n.placeholder) -> 3
       [] /\ Len(text) \in 1..50
          /\ (tagName(n) \in {"button", "a", "div", "span"}
                \/ n.role \in {"button", "link"}) -> 4
       [] n.contentEditable = "true" -> 5
       [] n.role \in {"button", "link", "textbox", "checkbox", "radio"} -> 6
       [] tagName(n) \in {"input", "textarea", "select", "button", "a"}
            /\ Truthy(n.name) -> 7
       [] OTHER -> 8

\* C17: the selector of every extracted node comes from the first rule of
\* the chain (test id, aria-label, placeholder, text match, content-editable,
\* whitelisted role, name, id/class/tag) that applies to the node; a node with
\* a test id and an aria-label gets the test-id selector whatever else it has.
C17_FirstApplicableRuleWins ==
  \A k \in 1..Len(elementToDataMap) :
    LET d == elementToDataMap[k]
        n == document[d.element]
    IN /\ RuleOfSelector(d.selector) = FirstApplicableRule(document, d.element)
       /\ (Truthy(n.testId) /\ Truthy(n.ariaLabel)) =>
            d.selector = "[data-testid=\"" \o n.testId \o "\"]"

C17_Witness ==
  /\ extractPc = "done"
  /\ Len(document) = 1
  /\ document[1].testId = "t"
  /\ document[1].ariaLabel = "L"
  /\ document[1].placeholder = "p"
  /\ document[1].text = "Save"
  /\ document[1].role = "button"
  /\ document[1].tag = "input"
  /\ Len(results) = 1
  /\ results[1].selector = "[data-testid=\"t\"]"

\* C18: a node with zero width or height, display none, visibility hidden,
\* opacity 0 or pointer-events none never has an entry, in the map or in the
\* returned list, whatever selector type it matches and whichever pass reaches
\* it; every listed element has isVisible = true.
C18_InvisibleNeverListed ==
  /\ \A k \in 1..Len(elementToDataMap) :
       LET n == document[elementToDataMap[k].element] IN
         /\ n.rect.width > 0 /\ n.rect.height > 0
         /\ n.display # "none" /\ n.visibility # "hidden"
         /\ n.opacity # "0" /\ n.pointerEvents # "none"
         /\ elementToDataMap[k].isVisible
  /\ \A k \in 1..Len(results) :
       LET n == document[selectorToElement[k].element] IN
         /\ n.rect.width > 0 /\ n.rect.height > 0
         /\ n.display # "none" /\ n.visibility # "hidden"
         /\ n.opacity # "0" /\ n.pointerEvents # "none"
         /\ results[k].isVisible
         /\ results[k].boundingBox.width > 0
         /\ results[k].boundingBox.height > 0

C18_Witness ==
  /\ extractPc = "done"
  /\ Len(document) = 3
  /\ document[1].display = "none"
  /\ document[1].tag = "button"
  /\ document[2].rect.width = 0
  /\ document[2].tag = "input"
  /\ {1, 2} \subseteq seenElements
  /\ Len(results) = 1
  /\ selectorToElement[1].element = 3

\* C19 as stated: for every extracted node that carries a role attribute the
\* recorded role equals that attribute, whatever its tag, content-editable
\* flag or cursor.
C19_ExplicitRoleWins ==
  \A k \in 1..Len(elementToDataMap) :
    LET n == document[elementToDataMap[k].element] IN
      n.role # Null => elementToDataMap[k].role = n.role

\* the entry of the returned list a parentSelector resolves to, 0 if none
ResolveLink(list, selector) ==
  LET hits == {k \in 1..Len(list) : list[k].selector = selector}
  IN IF hits = {} THEN 0 ELSE CHOOSE k \in hits : TRUE

\* following parentSelector links from entry `from` reaches entry `start`
RECURSIVE LinksReturn(_, _, _, _)
LinksReturn(list, start, from, fuel) ==
  LET p == ResolveLink(list, list[from].parentSelector) IN
    /\ p # 0
    /\ \/ p = start
       \/ fuel > 0 /\ LinksReturn(list, start, p, fuel - 1)

\* the extracted strict ancestors of a node
ExtractedAncestors(doc, el, map) ==
  (AncestorsOrSelf(doc, el) \ {el}) \cap Elements(map)

\* C20 as stated: following parentSelector links through the returned list
\* never returns to the starting element, no element's parentSelector equals
\* its own selector, and each parentSelector is the selector of the nearest
\* extracted ancestor.
C20_ParentIndexAcyclic ==
  extractPc = "done" =>
    \A k \in 1..Len(results) :
      /\ ~LinksReturn(results, k, k, Len(results))
      /\ results[k].parentSelector # results[k].selector
      /\ LET el == selectorToElement[k].element
             anc == ExtractedAncestors(document, el, elementToDataMap)
         IN IF anc = {} THEN results[k].parentSelector = Undef
            ELSE results[k].parentSelector =
                   EntryOf(CHOOSE a \in anc : \A b \in anc : b <= a).selector

\* ------------------------------------ properties of the decision-engine call
\* C21 as stated: a rate-limit condition during a next-action call is retried
\* with a bounded number of backed-off attempts, and the error reaches the
\* caller only after the retries are used up, that is after more than one
\* request.
C21_RateLimitRetried ==
  error = "RateLimited" => apiCalls > 1

\* ------------------------------ properties of selector synthesis and region
\* the node has a role in the sense of the claim: a role attribute, or the
\* role of a plain button, link or text input
CarriesRole(n) ==
  \/ Truthy(n.role)
  \/ tagName(n) \in {"button", "a"}
  \/ inferRole(n) \in {"button", "link", "textbox"}

\* C22 as stated: a node with an aria-label and no test id gets the selector
\* tag[aria-label=...] whenever it carries a role, explicit or inferred, and
\* the bare [aria-label=...] only when it has no role at all.
C22_LabelQualifiedByAnyRole ==
  \A k \in 1..Len(elementToDataMap) :
    LET d == elementToDataMap[k]
        n == document[d.element]
    IN (Truthy(n.ariaLabel) /\ ~Truthy(n.testId)) =>
         d.selector =
           IF CarriesRole(n)
             THEN tagName(n) \o "[aria-label=\"" \o n.ariaLabel \o "\"]"
             ELSE "[aria-label=\"" \o n.ariaLabel \o "\"]"

\* C23 as stated: the selector tag:has-text("...") is emitted only for nodes
\* with tag button or a, or role button or link, whose trimmed text has 1 to
\* 50 characters; any other node falls through to the later rules.
C23_TextMatchOnlyForButtonsAndLinks ==
  \A k \in 1..Len(elementToDataMap) :
    LET d == elementToDataMap[k]
        n == document[d.element]
    IN includes(d.selector, ":has-text(") =>
         /\ tagName(n) \in {"button", "a"} \/ n.role \in {"button", "link"}
         /\ Len(trim(textContent(document, d.element))) \in 1..50

RegionOrder == <<"header", "nav", "sidebar", "footer", "main">>

\* the landmark signatures as the claim gives them
ClaimedSignature(region, n) ==
  LET id == toLowerCase(n.id)
      className == toLowerCase(n.className)
      Has(tag, role, word) ==
        \/ tagName(n) = tag \/ n.role = role
        \/ includes(id, word) \/ includes(className, word)
  IN CASE region = "header" -> Has("header", "banner", "header")
       [] region = "nav" -> Has("nav", "navigation", "nav")
       [] region = "sidebar" -> Has("aside", "complementary", "sidebar")
       [] region = "footer" -> Has("footer", "contentinfo", "footer")
       [] region = "main" -> Has("main", "main", "main-content")

\* the same, with the main signature taking any id that contains "main"
AmendedSignature(region, n) ==
  \/ ClaimedSignature(region, n)
  \/ region = "main" /\ includes(toLowerCase(n.id), "main")

\* the region given by the nearest node of the self-and-ancestor chain that
\* matches a signature, the signatures taken in RegionOrder
RegionBy(Signature(_, _), doc, el) ==
  LET marked == {a \in AncestorsOrSelf(doc, el) :
                   \E r \in 1..5 : Signature(RegionOrder[r], doc[a])}
  IN IF marked = {} THEN "main"
     ELSE LET a == CHOOSE a \in marked : \A b \in marked : b <= a
              r == CHOOSE r \in 1..5 :
                     /\ Signature(RegionOrder[r], doc[a])
                     /\ \A q \in 1..(r - 1) : ~Signature(RegionOrder[q], doc[a])
          IN RegionOrder[r]

\* C24 as stated: the region is decided by the nearest node of the
\* self-and-ancestor chain matching a signature, tested in the order header,
\* nav, sidebar, footer, main, the main signature being tag main, role main
\* or id/class containing "main-content"; "main" when nothing matches.
C24_Original ==
  \A k \in 1..Len(elementToDataMap) :
    elementToDataMap[k].region =
      RegionBy(ClaimedSignature, document, elementToDataMap[k].element)

\* C24 amended: as above, but the main signature is tag main, role main, an
\* id containing "main" or a class containing "main-content"; the region is
\* always one of the five values.
C24_RegionByNearestLandmark ==
  \A k \in 1..Len(elementToDataMap) :
    /\ elementToDataMap[k].region =
         RegionBy(AmendedSignature, document, elementToDataMap[k].element)
    /\ elementToDataMap[k].region \in
         {"header", "nav", "sidebar", "footer", "main"}

C24_Witness ==
  /\ extractPc = "done"
  /\ Len(document) = 3
  /\ document[1].tag = "nav"
  /\ document[2].id = "mainframe"
  /\ document[3].id = ""
  /\ Len(results) = 1
  /\ results[1].region = "main"

====
